---- MODULE Spec2Model ----
(***************************************************************************)
(* Client-side video pipelines of eagleai-frontend: the tracking pipeline  *)
(* (trackVideoText / trackVideoTextFast: rate estimate, extractVideoFrames,*)
(* renderMasksOnFrame, createVideoFromFrames) and the trim pipeline        *)
(* (trimVideoFile).  Every browser callback (onloadedmetadata, seeked,     *)
(* toBlob, img.onload, timers, MediaRecorder events) is one action.        *)
(*                                                                         *)
(* Numbers: a duration is a rational num/den seconds, or NaN, or Infinity. *)
(* A seek time is kept as the pair (index, rate) it was computed from.     *)
(***************************************************************************)
EXTENDS Integers, Sequences, FiniteSets, TLC

\* ------------------------------------------------------------------ bounds
\* largest frame index the model returns in the rate specification
MaxFrameIdx == 15
\* durations num/den seconds with num in 0..MaxDurNum, den in 1..MaxDurDen
MaxDurNum == 5
MaxDurDen == 2
\* largest object id a packet lists
MaxObjectId == 11
\* most packets of a tracking result in the pipeline specifications
MaxTrackFrames == 3
\* most frames handed to the assembler on its own
MaxAsmFrames == 3
\* most masks of the packet in the compositing specification
MaxMasks == 2
\* the pictures of the compositing specification are FrameWidth pixels wide
\* and FrameHeight pixels high
FrameWidth == 2
FrameHeight == 2
\* startTime and endTime of a trim in 0..MaxTrimTime ticks, the video's
\* duration in 1..MaxTrimDur ticks (a tick is a quarter of a second)
MaxTrimTime == 5
MaxTrimDur == 3
\* masks of the decoding specification: at most MaxMaskHeight rows and
\* MaxMaskWidth columns, at most MaxRuns runs of at most MaxRun pixels
MaxMaskHeight == 2
MaxMaskWidth == 4
MaxRuns == 4
MaxRun == 3
\* how late a timer of the assembler may fire, in units of 1 / fps milliseconds
MaxLate == 2
\* the viewer: at most MaxViewFrames overlay frames, a video of at most
\* MaxViewDur ticks (a tick is half a second), at most MaxViewCallbacks
\* callbacks registered and MaxViewCleanups runs of the effect's cleanup
MaxViewFrames == 4
MaxViewDur == 4
MaxViewCallbacks == 3
MaxViewCleanups == 2
\* most video elements created in the video handle specification
MaxHandles == 3
\* largest source file of the pre-flight specification, in half megabytes
MaxFileSize == 150
\* the duration of the uploaded video of the App specification is in
\* 1..MaxAppDur quarter-second ticks
MaxAppDur == 6
\* connect() is called at most MaxConnects times on one client
MaxConnects == 2

\* ----------------------------------------------------------- plain helpers
Range(s) == {s[k] : k \in 1..Len(s)}

RECURSIVE SeqMax(_)
SeqMax(s) ==
    IF Len(s) = 1 THEN s[1]
    ELSE LET m == SeqMax(Tail(s)) IN IF s[1] > m THEN s[1] ELSE m

\* Array.prototype.indexOf, 0-based, -1 when absent
IndexOf(s, x) ==
    IF \E k \in 1..Len(s) : s[k] = x
    THEN (CHOOSE k \in 1..Len(s) : s[k] = x /\ \A j \in 1..(k-1) : s[j] # x) - 1
    ELSE 0 - 1

\* frameIndices: data.frames.map(f => f.frame_idx).sort((a, b) => a - b)
RECURSIVE SortAsc(_)
SortAsc(s) ==
    IF Len(s) = 0 THEN << >>
    ELSE LET k == CHOOSE k \in 1..Len(s) : \A j \in 1..Len(s) : s[k] <= s[j]
             rest == [j \in 1..(Len(s)-1) |-> IF j < k THEN s[j] ELSE s[j+1]]
         IN <<s[k]>> \o SortAsc(rest)

FrameIdxList(frames) == [k \in 1..Len(frames) |-> frames[k].frame_idx]

frameIndicesOf(frames) == SortAsc(FrameIdxList(frames))

\* ------------------------------------------------------------- durations
NaNDuration == [kind |-> "nan", num |-> 0, den |-> 1]
InfDuration == [kind |-> "inf", num |-> 0, den |-> 1]
Fin(n, d) == [kind |-> "fin", num |-> n, den |-> d]

\* no duration resolved yet; the { duration: 10 } of tempVideo.onerror
NoDuration == [kind |-> "none", num |-> 0, den |-> 1]
FallbackDuration == [kind |-> "fallback", num |-> 10, den |-> 1]

\* JavaScript `duration > 0`: false for NaN and for 0, true for Infinity
DurationPositive(dur) ==
    \/ dur.kind = "inf"
    \/ dur.kind = "fin" /\ dur.num > 0

\* Math.round((maxFrameIdx + 1) / duration) for duration > 0:
\* floor(x + 1/2) for a finite duration, 0 for an infinite one
RoundRate(maxFrameIdx, dur) ==
    IF dur.kind = "inf" THEN 0
    ELSE (2 * (maxFrameIdx + 1) * dur.den + dur.num) \div (2 * dur.num)

\* the default rate of the rate estimate when it cannot be computed
DefaultFPS == 30

\* trackVideoText, tempVideo.onloadedmetadata: the SAM3 (sampled) rate
sam3FPSOf(dur, maxFrameIdx) ==
    IF DurationPositive(dur) /\ maxFrameIdx > 0
    THEN RoundRate(maxFrameIdx, dur)
    ELSE DefaultFPS

\* const fpsMultiplier = sam3FPS <= 10 ? 5 : (sam3FPS <= 15 ? 2 : 1)
fpsMultiplierWrongBoundary(fps) == IF fps < 10 THEN 5 ELSE (IF fps <= 15 THEN 2 ELSE 1)

fpsMultiplier(fps) == IF fps <= 10 THEN 5 ELSE (IF fps <= 15 THEN 2 ELSE 1)

originalFPSOf(fps) == fps * fpsMultiplier(fps)

\* -------------------------------------------------------------- variables
VARIABLES
    \* environment
    ctx2d,            \* canvas.getContext('2d') yields a context in this browser
    videoDuration,    \* duration the media element reports for the source file
    \* trackVideoText / trackVideoTextFast
    variant,          \* "text" (trackVideoText) or "fast" (trackVideoTextFast)
    tpc,              \* position of the tracking operation
    dataFrames,       \* data.frames of the response
    duration,         \* the duration the metadata promise resolved with
    sam3FPS,
    originalFPS,
    ri,               \* loop variable i of the render loop
    renderedFrames,
    tResult,          \* what the tracking promise settled with
    \* extractVideoFrames
    xpc,              \* position of the extractor
    xArgs,            \* its arguments frameIndices and fps
    xi,               \* loop variable i of the extraction loop
    originalFrames,   \* frames: the bitmaps pushed so far
    xSeeks,           \* every `video.currentTime = time` issued, in order
    xTimedOut,        \* indices whose 5 s timer fired
    xOutstanding,     \* seeks issued on the video and not yet complete
    xTimer,           \* the 5000 ms timer of the awaited frame is running
    xFailed,          \* why the extractor rejected: "ctx", "video", "timeout", "seek"
    \* createVideoFromFrames
    apc,              \* position of the assembler's callbacks
    aFrames,          \* its argument frames
    aFps,             \* its argument fps
    aPromise,         \* "pending", "resolved" or "rejected"
    aRejects,         \* how many times reject(...) was called
    aVideo,           \* what resolve(videoUrl) handed over
    frameIndex,
    recState,         \* mediaRecorder.state ("none" before construction)
    recQueue,         \* recorder events queued for delivery
    chunks,
    drawn,            \* positions drawn to the canvas, in order
    recorded,         \* positions drawn while the stream was being recorded
    aFailed,          \* what went wrong: "probe", "ctor", "encoder"
    aLoadFailed,      \* positions whose image failed to load in the draw loop
    aClock,           \* time since the call, in units of 1 / fps milliseconds
    aStartAt,         \* aClock at mediaRecorder.start() (-1 before)
    aStopAt,          \* aClock when the recorder became inactive (-1 before)
    aLate,            \* how late this browser's timers fire, in the same units
    \* trimVideoFile (times in ticks of a quarter second)
    trpc,             \* "none", "idle", "loading" or "live" (metadata loaded)
    trArgs,           \* startTime and endTime
    trVideoDur,       \* video.duration
    trTime,           \* video.currentTime
    trSeeking,        \* a seeked event is due
    trPlay,           \* the promise of video.play(): "none", "pending", ...
    trPaused,         \* playback is paused
    trEnded,          \* video.ended
    trAttached,       \* the video element is in the document
    isRecording,
    trRec,            \* mediaRecorder.state ("none" before construction)
    trQueue,          \* recorder events queued for delivery
    trChunks,
    trRaf,            \* a requestAnimationFrame(processFrame) is pending
    trPromise,        \* "pending", "resolved" or "rejected"
    trProgress,       \* the values handed to onProgress
    trDrawnAt,        \* the playback positions drawn to the canvas
    trFailed,         \* what went wrong: "ctor", "play", "video", "encoder"
    trFile,           \* what resolve(file) handed over
    \* decodeRLEToImageData / decodeMasksToDataURL called on their own
    dpc,              \* "none", "bitmap", "ready" or "done"
    dBitmap,          \* the bitmap a mask was encoded from (<< >> when none)
    dArgs,            \* the function called and its arguments
    dResult,          \* what the call returned, or that it threw
    \* MediaViewer: the sync loop effect (times in ticks of half a second)
    vpc,              \* "none", "mounted", "active" (loop running) or "torn"
    hasRVFC,          \* 'requestVideoFrameCallback' in video
    viewDur,          \* video.duration of the viewer's video
    syncFrames,       \* frames.length of the effect's result.trackingFrames
    requestRef,       \* requestRef.current (0 for null)
    viewPending,      \* callbacks registered with the browser and not yet run
    viewIds,          \* how many callback ids the browser has handed out
    currentOverlayUrl, \* position in frames of the overlay shown (-1 for null)
    viewLast,         \* currentTime and frameIndex of the last evaluation
    viewCleanups,     \* how often the cleanup ran since the last effect run
    \* the video elements of the document
    handles,          \* per element: the component that created it and who used it
    videoOf,          \* per component: the elements its calls hold in `video`
    \* trackVideoText before the response (sizes in half megabytes)
    fileSize,         \* file.size
    tBegun,           \* work begun so far: "base64" (fileToBase64), "fetch"
    \* MediaRecorder codecs
    supported,        \* the types MediaRecorder.isTypeSupported reports as supported
    aOptions,         \* the mimeType of each MediaRecorder the assembler constructed
    trOptions,        \* the mimeType of each MediaRecorder the trimmer constructed
    \* App state and VideoTrimmer (times in quarter-second ticks)
    isAnalyzing,      \* state.isAnalyzing
    isTrimming,       \* state.isTrimming
    hasInput,         \* a prompt, a point or a box is set
    showProcessed,    \* state.result has a processedMediaUrl
    stateDuration,    \* state.videoDuration
    trimRange,        \* state.trimRange = <<start, end>>
    isDragging,       \* VideoTrimmer: "start", "end" or "none" (null)
    \* McpClient
    mcpSources,       \* readyState of every EventSource created, by number
    eventSource,      \* this.eventSource: the number of a source, or 0 for null
    postEndpoint,     \* this.postEndpoint is set
    isConnected,      \* this._isConnected
    mcpHandshake,     \* position of the endpoint listener of each source
    mcpPromise        \* the promise of each connect() call

envVars == <<ctx2d, videoDuration>>
trackVars == <<variant, tpc, dataFrames, duration, sam3FPS, originalFPS, ri, renderedFrames, tResult>>
extractVars == <<xpc, xArgs, xi, originalFrames, xSeeks, xTimedOut,
                 xOutstanding, xTimer, xFailed>>
asmVars == <<apc, aFrames, aFps, aPromise, aRejects, aVideo, frameIndex, recState,
             recQueue, chunks, drawn, recorded, aFailed, aLoadFailed,
             aClock, aStartAt, aStopAt, aLate>>
asmClock == <<aClock, aStartAt, aStopAt, aLate>>
trimVars == <<trpc, trArgs, trVideoDur, trTime, trSeeking, trPlay, trPaused, trEnded,
              trAttached, isRecording, trRec, trQueue, trChunks, trRaf, trPromise,
              trProgress, trDrawnAt, trFailed, trFile>>
decodeVars == <<dpc, dBitmap, dArgs, dResult>>
viewVars == <<vpc, hasRVFC, viewDur, syncFrames, requestRef, viewPending, viewIds,
              currentOverlayUrl, viewLast, viewCleanups>>
handleVars == <<handles, videoOf>>
preVars == <<fileSize, tBegun>>
codecVars == <<supported, aOptions, trOptions>>
mcpVars == <<mcpSources, eventSource, postEndpoint, isConnected, mcpHandshake, mcpPromise>>
appVars == <<isAnalyzing, isTrimming, hasInput, showProcessed, stateDuration, trimRange,
             isDragging>>
vars == <<envVars, mcpVars, appVars, codecVars, preVars, handleVars, viewVars, decodeVars, trackVars, extractVars, asmVars, trimVars>>

\* ------------------------------------------------------------ input sets
\* an RLE mask as the model returns it: size = [height, width]
MaskA == [size |-> <<1, 2>>, counts |-> <<1, 1>>]
MaskB == [size |-> <<2, 1>>, counts |-> <<0, 1, 1>>]
\* the mask of the decoder's example
ExampleMask == [size |-> <<2, 4>>, counts |-> <<2, 2, 2, 2>>]
\* a malformed mask with a zero dimension
MaskZero == [size |-> <<0, 2>>, counts |-> << >>]

Packet(idx, masks, ids) == [frame_idx |-> idx, masks |-> masks, object_ids |-> ids]

RateDurations ==
    {NaNDuration, InfDuration}
        \cup {Fin(n, d) : n \in 0..MaxDurNum, d \in 1..MaxDurDen}

\* tracking results of one or two packets, ascending by frame_idx, without masks
RateResults ==
    {<<Packet(m, << >>, << >>)>> : m \in 0..MaxFrameIdx}
        \cup {<<Packet(a, << >>, << >>), Packet(m, << >>, << >>)>> :
                a \in {0}, m \in 1..MaxFrameIdx}

\* frame indices the model returns in the pipeline specification: it samples
\* every fifth frame
TrackIdx == {5 * k : k \in 0..(MaxTrackFrames - 1)}

\* the packets of one frame index: without masks, or with one mask
TrackPackets(idx) == {Packet(idx, << >>, << >>), Packet(idx, <<MaskA>>, <<1>>)}

\* ascending sequences of at most n packets with indices in S
RECURSIVE AscendingResults(_, _)
AscendingResults(S, n) ==
    IF n = 0 \/ S = {} THEN {<< >>}
    ELSE {<< >>} \cup
         UNION {{<<p>> \o rest : p \in TrackPackets(i),
                                rest \in AscendingResults({j \in S : j > i}, n - 1)} :
                i \in S}

TrackResults == AscendingResults(TrackIdx, MaxTrackFrames) \ {<< >>}

TrackDurations == {InfDuration, Fin(0, 1), Fin(1, 1), Fin(9, 2)}

NoResult == [status |-> "pending", text |-> "", n |-> 0, m |-> 0, mediaType |-> "none",
             media |-> << >>, trackingFrames |-> << >>]

\* ---------------------------------------------------- extractVideoFrames
\* `time > video.duration` for time = frameIdx / fps in IEEE arithmetic:
\* frameIdx / 0 is NaN for frameIdx = 0 and Infinity otherwise
TimeExceedsDuration(frameIdx, fps, dur) ==
    IF fps = 0
    THEN frameIdx > 0 /\ dur.kind = "fin"
    ELSE dur.kind = "fin" /\ frameIdx * dur.den > dur.num * fps

\* whether frameIdx / fps is a finite number (`video.currentTime = time`
\* throws a TypeError for NaN and Infinity)
TimeFinite(frameIdx, fps) == fps > 0

\* a variant of the loop without the `continue`: no position is skipped
NextUnskippedNone(indices, i, fps, dur) ==
    IF i >= Len(indices) THEN Len(indices) ELSE i

\* the first position >= i of the extraction loop that is not skipped by
\* `if (time > video.duration) continue`, or the length when there is none
RECURSIVE NextUnskipped(_, _, _, _)
NextUnskipped(indices, i, fps, dur) ==
    IF i >= Len(indices) THEN Len(indices)
    ELSE IF TimeExceedsDuration(indices[i + 1], fps, dur)
         THEN NextUnskipped(indices, i + 1, fps, dur)
         ELSE i

\* the call extractVideoFrames(videoFile, frameIndices, fps): the video
\* element is created and video.load() is called
ExtractCall(indices, fps) ==
    /\ xpc' = "loading"
    /\ xArgs' = [indices |-> indices, fps |-> fps]
    /\ xi' = 0
    /\ originalFrames' = << >>
    /\ xSeeks' = << >>
    /\ xTimedOut' = {}
    /\ xOutstanding' = 0
    /\ xTimer' = FALSE
    /\ xFailed' = {}

\* the for loop of extractVideoFrames run from position i to its next await,
\* `pending` seeks being outstanding on the video: skipped indices are
\* passed over, then either the loop ends and the promise resolves, or the
\* 5000 ms timer is set and the seek is issued and awaited, or the
\* assignment of a non-finite time throws after the timer was set
ExtractLoopFrom(i, pending) ==
    LET j == NextUnskipped(xArgs.indices, i, xArgs.fps, videoDuration) IN
    /\ xi' = j
    /\ IF j >= Len(xArgs.indices)
       THEN /\ xpc' = "resolved"
            /\ xOutstanding' = pending /\ xTimer' = FALSE
            /\ UNCHANGED <<xSeeks, xFailed>>
       ELSE IF ~TimeFinite(xArgs.indices[j + 1], xArgs.fps)
            THEN /\ xpc' = "rejected"
                 /\ xFailed' = xFailed \cup {"seek"}
                 /\ xOutstanding' = pending /\ xTimer' = TRUE
                 /\ UNCHANGED xSeeks
            ELSE /\ xpc' = "seeking"
                 /\ xSeeks' = Append(xSeeks,
                        [frameIdx |-> xArgs.indices[j + 1], fps |-> xArgs.fps])
                 /\ xOutstanding' = pending + 1 /\ xTimer' = TRUE
                 /\ UNCHANGED xFailed

\* video.onloadedmetadata
ExtractLoadedMetadata ==
    /\ xpc = "loading"
    /\ IF ~ctx2d
       THEN /\ xpc' = "rejected"
            /\ xFailed' = xFailed \cup {"ctx"}
            /\ UNCHANGED <<xi, xSeeks, xOutstanding, xTimer>>
       ELSE ExtractLoopFrom(0, xOutstanding)
    /\ UNCHANGED <<xArgs, originalFrames, xTimedOut>>
    /\ UNCHANGED <<envVars, mcpVars, appVars, codecVars, preVars, handleVars, viewVars, decodeVars, trackVars, asmVars, trimVars>>

\* video.onerror: reject(new Error("Failed to load video"))
ExtractVideoError ==
    /\ xpc = "loading"
    /\ xpc' = "rejected"
    /\ xFailed' = xFailed \cup {"video"}
    /\ UNCHANGED <<xArgs, xi, originalFrames, xSeeks, xTimedOut, xOutstanding, xTimer>>
    /\ UNCHANGED <<envVars, mcpVars, appVars, codecVars, preVars, handleVars, viewVars, decodeVars, trackVars, asmVars, trimVars>>

\* a variant in which the timeout skips the index: frameResolve() and the
\* loop goes on with the next index
ExtractTimeoutContinues ==
    /\ xTimer /\ xpc = "seeking"
    /\ xTimedOut' = xTimedOut \cup {xArgs.indices[xi + 1]}
    /\ ExtractLoopFrom(xi + 1, xOutstanding)
    /\ UNCHANGED <<xArgs, originalFrames>>
    /\ UNCHANGED <<envVars, mcpVars, appVars, codecVars, preVars, handleVars, viewVars, decodeVars, trackVars, asmVars, trimVars>>

\* the 5000 ms timer fires: before `seeked`, frameReject(...), the await
\* throws and the catch rejects the extractor; after the seek itself threw,
\* frameReject(...) on the settled promise does nothing
ExtractTimeout ==
    /\ xTimer
    /\ xTimer' = FALSE
    /\ IF xpc = "seeking"
       THEN /\ xTimedOut' = xTimedOut \cup {xArgs.indices[xi + 1]}
            /\ xFailed' = xFailed \cup {"timeout"}
            /\ xpc' = "rejected"
       ELSE UNCHANGED <<xTimedOut, xFailed, xpc>>
    /\ UNCHANGED <<xArgs, xi, originalFrames, xSeeks, xOutstanding>>
    /\ UNCHANGED <<envVars, mcpVars, appVars, codecVars, preVars, handleVars, viewVars, decodeVars, trackVars, asmVars, trimVars>>

\* onSeeked: the seek is complete; clearTimeout(timeout), the picture is
\* drawn and toBlob is started; when drawImage throws, frameResolve() and
\* the loop goes on
ExtractSeeked ==
    /\ xpc = "seeking"
    /\ \E drawThrows \in BOOLEAN :
          IF drawThrows
          THEN ExtractLoopFrom(xi + 1, xOutstanding - 1)
          ELSE /\ xpc' = "toBlob"
               /\ xOutstanding' = xOutstanding - 1 /\ xTimer' = FALSE
               /\ UNCHANGED <<xi, xSeeks, xFailed>>
    /\ UNCHANGED <<xArgs, originalFrames, xTimedOut>>
    /\ UNCHANGED <<envVars, mcpVars, appVars, codecVars, preVars, handleVars, viewVars, decodeVars, trackVars, asmVars, trimVars>>

\* the toBlob callback: with a blob createImageBitmap is started, without
\* one frameResolve() and the loop goes on
ExtractBlob ==
    /\ xpc = "toBlob"
    /\ \E blob \in BOOLEAN :
          IF blob
          THEN xpc' = "createImageBitmap"
               /\ UNCHANGED <<xi, xSeeks, xOutstanding, xTimer, xFailed>>
          ELSE ExtractLoopFrom(xi + 1, xOutstanding)
    /\ UNCHANGED <<xArgs, originalFrames, xTimedOut>>
    /\ UNCHANGED <<envVars, mcpVars, appVars, codecVars, preVars, handleVars, viewVars, decodeVars, trackVars, asmVars, trimVars>>

\* createImageBitmap(blob) settles: then frames.push(bitmap), or catch;
\* frameResolve() either way.  A bitmap is the index whose picture it holds
ExtractBitmap ==
    /\ xpc = "createImageBitmap"
    /\ \E ok \in BOOLEAN :
          originalFrames' =
              IF ok THEN Append(originalFrames, [src |-> xArgs.indices[xi + 1]])
              ELSE originalFrames
    /\ ExtractLoopFrom(xi + 1, xOutstanding)
    /\ UNCHANGED <<xArgs, xTimedOut>>
    /\ UNCHANGED <<envVars, mcpVars, appVars, codecVars, preVars, handleVars, viewVars, decodeVars, trackVars, asmVars, trimVars>>

NextExtract ==
    \/ ExtractLoadedMetadata
    \/ ExtractVideoError
    \/ ExtractTimeout
    \/ ExtractSeeked
    \/ ExtractBlob
    \/ ExtractBitmap

\* ------------------------------------------------- McpClient, at rest
\* a client after its construction: no EventSource, no endpoint
McpNone ==
    /\ mcpSources = << >> /\ eventSource = 0 /\ postEndpoint = FALSE
    /\ isConnected = FALSE /\ mcpHandshake = << >> /\ mcpPromise = << >>

\* ------------------------------------------------------------- App state
\* the initial state of App: nothing is analysed or trimmed, no video
\* duration is known
AppNone ==
    /\ isAnalyzing = FALSE /\ isTrimming = FALSE /\ hasInput = FALSE
    /\ showProcessed = FALSE /\ stateDuration = 0 /\ trimRange = <<0, 0>>
    /\ isDragging = "none"

\* `const minGap = 1`: one second, in quarter-second ticks
MinGap == 4

\* MediaViewer: showTrimmer, for an uploaded video off camera
showTrimmer == ~showProcessed /\ stateDuration > 0

\* MediaViewer: isRangeModified (0.1 s is less than one tick)
isRangeModified ==
    showTrimmer /\ (trimRange[1] > 0 \/ trimRange[2] < stateDuration)

\* VideoTrimmer is mounted while showTrimmer holds: its state is lost
\* when it is unmounted
DraggingAfter(shown, dragging) == IF shown THEN dragging ELSE "none"

\* the video element's loadedmetadata: handleVideoMetadata(duration)
handleVideoMetadata ==
    /\ ~showProcessed /\ stateDuration = 0
    /\ \E d \in 1..MaxAppDur :
          /\ stateDuration' = d
          /\ trimRange' = <<0, d>>
    /\ UNCHANGED <<isAnalyzing, isTrimming, hasInput, showProcessed, isDragging>>
    /\ UNCHANGED <<envVars, mcpVars, codecVars, preVars, handleVars, viewVars, decodeVars, trackVars, extractVars, asmVars, trimVars>>

\* the prompt is typed or cleared
AppPromptChanges ==
    /\ hasInput' = ~hasInput
    /\ UNCHANGED <<isAnalyzing, isTrimming, showProcessed, stateDuration, trimRange,
                   isDragging>>
    /\ UNCHANGED <<envVars, mcpVars, codecVars, preVars, handleVars, viewVars, decodeVars, trackVars, extractVars, asmVars, trimVars>>

\* VideoTrimmer handlePointerDown(type)
handlePointerDown ==
    /\ showTrimmer
    /\ \E type \in {"start", "end"} : isDragging' = type
    /\ UNCHANGED <<isAnalyzing, isTrimming, hasInput, showProcessed, stateDuration,
                   trimRange>>
    /\ UNCHANGED <<envVars, mcpVars, codecVars, preVars, handleVars, viewVars, decodeVars, trackVars, extractVars, asmVars, trimVars>>

\* VideoTrimmer handlePointerMove: getTimeFromX gives a time in
\* [0, duration]; onChange is App's handleTrimChange
handlePointerMove ==
    /\ showTrimmer /\ isDragging # "none"
    /\ \E time \in 0..stateDuration :
          LET start == trimRange[1]
              end == trimRange[2]
          IN IF isDragging = "start"
             THEN LET newStart == IF time < end - MinGap THEN time ELSE end - MinGap
                  IN trimRange' = <<newStart, end>>
             ELSE LET newEnd == IF time > start + MinGap THEN time ELSE start + MinGap
                  IN trimRange' = <<start, newEnd>>
    /\ UNCHANGED <<isAnalyzing, isTrimming, hasInput, showProcessed, stateDuration,
                   isDragging>>
    /\ UNCHANGED <<envVars, mcpVars, codecVars, preVars, handleVars, viewVars, decodeVars, trackVars, extractVars, asmVars, trimVars>>

\* VideoTrimmer handlePointerUp (pointer up or pointer leave)
handlePointerUp ==
    /\ showTrimmer /\ isDragging # "none"
    /\ isDragging' = "none"
    /\ UNCHANGED <<isAnalyzing, isTrimming, hasInput, showProcessed, stateDuration,
                   trimRange>>
    /\ UNCHANGED <<envVars, mcpVars, codecVars, preVars, handleVars, viewVars, decodeVars, trackVars, extractVars, asmVars, trimVars>>

\* the Crop Clip button (disabled={!isRangeModified || isTrimming}) calls
\* handleTrimVideo, which returns for the full range and otherwise sets
\* isTrimming and awaits trimVideoFile
handleTrimVideo ==
    /\ isRangeModified /\ ~isTrimming
    /\ ~(trimRange[1] = 0 /\ trimRange[2] = stateDuration)
    /\ isTrimming' = TRUE
    /\ UNCHANGED <<isAnalyzing, hasInput, showProcessed, stateDuration, trimRange,
                   isDragging>>
    /\ UNCHANGED <<envVars, mcpVars, codecVars, preVars, handleVars, viewVars, decodeVars, trackVars, extractVars, asmVars, trimVars>>

\* trimVideoFile settles: on success the trimmed file replaces the video
\* (videoDuration 0, trimRange [0, 0], result null); finally isTrimming false
AppTrimSettles ==
    /\ isTrimming
    /\ isTrimming' = FALSE
    /\ \E ok \in BOOLEAN :
          IF ok
          THEN /\ stateDuration' = 0 /\ trimRange' = <<0, 0>>
               /\ showProcessed' = FALSE
               /\ isDragging' = "none"
          ELSE UNCHANGED <<stateDuration, trimRange, showProcessed, isDragging>>
    /\ UNCHANGED <<isAnalyzing, hasInput>>
    /\ UNCHANGED <<envVars, mcpVars, codecVars, preVars, handleVars, viewVars, decodeVars, trackVars, extractVars, asmVars, trimVars>>

\* the Run Analysis button (disabled={state.isAnalyzing || !canAnalyze})
\* calls handleAnalyzeButton, and performAnalysis sets isAnalyzing
performAnalysis ==
    /\ ~isAnalyzing /\ hasInput
    /\ isAnalyzing' = TRUE
    /\ UNCHANGED <<isTrimming, hasInput, showProcessed, stateDuration, trimRange,
                   isDragging>>
    /\ UNCHANGED <<envVars, mcpVars, codecVars, preVars, handleVars, viewVars, decodeVars, trackVars, extractVars, asmVars, trimVars>>

\* trackVideoText settles: the result is stored, or the error is alerted;
\* isAnalyzing becomes false
AppAnalysisSettles ==
    /\ isAnalyzing
    /\ isAnalyzing' = FALSE
    /\ \E ok \in BOOLEAN :
          /\ showProcessed' = (showProcessed \/ ok)
          /\ isDragging' = DraggingAfter(~showProcessed' /\ stateDuration > 0, isDragging)
    /\ UNCHANGED <<isTrimming, hasInput, stateDuration, trimRange>>
    /\ UNCHANGED <<envVars, mcpVars, codecVars, preVars, handleVars, viewVars, decodeVars, trackVars, extractVars, asmVars, trimVars>>



NextApp ==
    \/ handleVideoMetadata
    \/ AppPromptChanges
    \/ handlePointerDown
    \/ handlePointerMove
    \/ handlePointerUp
    \/ handleTrimVideo
    \/ AppTrimSettles
    \/ performAnalysis
    \/ AppAnalysisSettles

\* ---------------------------------------------- MediaRecorder codecs
CodecVp9 == "video/webm;codecs=vp9"
CodecWebm == "video/webm"
\* options without a mimeType: the runtime chooses its default
NoMimeType == "default"
CodecTypes == {CodecVp9, CodecWebm}

\* no recorder has been constructed, in a runtime that supports both types
CodecNone == supported = CodecTypes /\ aOptions = << >> /\ trOptions = << >>

\* MediaRecorder.isTypeSupported(type)
isTypeSupported(type) == type \in supported

\* a variant of the assembler's selection without the 'video/webm' step
asmRecorderOptionsNoGeneric ==
    IF ~isTypeSupported(CodecVp9) THEN NoMimeType ELSE CodecVp9

\* the options.mimeType createVideoFromFrames constructs its recorder with
asmRecorderOptions ==
    IF ~isTypeSupported(CodecVp9)
    THEN IF isTypeSupported(CodecWebm) THEN CodecWebm ELSE NoMimeType
    ELSE CodecVp9

\* the options.mimeType startRecording of trimVideoFile constructs its
\* recorder with
trimRecorderOptions ==
    IF ~isTypeSupported(CodecVp9)
    THEN IF isTypeSupported(CodecWebm) THEN CodecWebm ELSE NoMimeType
    ELSE CodecVp9

\* ------------------------------------------------- createVideoFromFrames
\* no assembler exists
AsmNone ==
    /\ apc = "none" /\ aFrames = << >> /\ aFps = 0
    /\ aPromise = "pending" /\ aRejects = 0 /\ aVideo = << >>
    /\ frameIndex = 0 /\ recState = "none" /\ recQueue = << >>
    /\ chunks = << >> /\ drawn = << >> /\ recorded = << >> /\ aFailed = {}
    /\ aLoadFailed = {}
    /\ aClock = 0 /\ aStartAt = 0 - 1 /\ aStopAt = 0 - 1 /\ aLate = 0

\* the delay of the frame timer, setTimeout(drawNextFrame, 1000 / fps), and
\* of the stop timer, 100 ms, in units of 1 / fps milliseconds
FrameDelay == 1000
\* a variant without the delay before stop()
StopDelayNone(fps) == 0
StopDelay(fps) == 100 * fps

\* a promise settles once: resolve and reject after that change nothing
Settle(promise, outcome) == IF promise = "pending" THEN outcome ELSE promise

\* the call createVideoFromFrames(frames, fps) up to `firstFrame.src = ...`
AsmCall(frames, fps) ==
    /\ aFrames' = frames
    /\ aFps' = fps
    /\ aVideo' = << >>
    /\ frameIndex' = 0 /\ recState' = "none" /\ recQueue' = << >>
    /\ chunks' = << >> /\ drawn' = << >> /\ recorded' = << >> /\ aFailed' = {}
    /\ aLoadFailed' = {}
    /\ aClock' = 0 /\ aStartAt' = 0 - 1 /\ aStopAt' = 0 - 1
    /\ \E late \in {0, MaxLate} : aLate' = late
    /\ IF Len(frames) = 0 \/ ~ctx2d
       THEN apc' = "finished" /\ aPromise' = "rejected" /\ aRejects' = 1
       ELSE apc' = "probe" /\ aPromise' = "pending" /\ aRejects' = 0

\* firstFrame.onload: the canvas is sized, the MediaRecorder is constructed,
\* its handlers are set and drawNextFrame() starts loading frames[0].
\* When the constructor throws, the handler ends there.
AsmFirstFrameLoaded ==
    /\ apc = "probe"
    /\ \E ctorThrows \in BOOLEAN :
          IF ctorThrows
          THEN /\ apc' = "crashed"
               /\ aFailed' = aFailed \cup {"ctor"}
               /\ UNCHANGED recState
          ELSE /\ apc' = "loadImg"
               /\ recState' = "inactive"
               /\ UNCHANGED aFailed
    /\ UNCHANGED <<aFrames, aFps, aPromise, aRejects, aVideo, frameIndex, recQueue,
                   chunks, drawn, recorded>>
    /\ UNCHANGED aLoadFailed
    /\ UNCHANGED asmClock
    /\ aOptions' = Append(aOptions, asmRecorderOptions)
    /\ UNCHANGED <<supported, trOptions>>
    /\ UNCHANGED <<envVars, mcpVars, appVars, preVars, handleVars, viewVars, decodeVars, trackVars, extractVars, trimVars>>

\* firstFrame.onerror: reject(new Error("Failed to load first frame"))
AsmFirstFrameError ==
    /\ apc = "probe"
    /\ apc' = "finished"
    /\ aPromise' = Settle(aPromise, "rejected")
    /\ aRejects' = aRejects + 1
    /\ aFailed' = aFailed \cup {"probe"}
    /\ UNCHANGED <<aFrames, aFps, aVideo, frameIndex, recState, recQueue, chunks,
                   drawn, recorded>>
    /\ UNCHANGED aLoadFailed
    /\ UNCHANGED asmClock
    /\ UNCHANGED <<envVars, mcpVars, appVars, codecVars, preVars, handleVars, viewVars, decodeVars, trackVars, extractVars, trimVars>>

\* img.onload of drawNextFrame: draw, start the recorder on the first frame,
\* frameIndex++, setTimeout(drawNextFrame, 1000 / fps)
AsmImgLoaded ==
    /\ apc = "loadImg"
    /\ drawn' = Append(drawn, frameIndex)
    /\ recState' = IF frameIndex = 0 THEN "recording" ELSE recState
    /\ recorded' = IF frameIndex = 0 \/ recState = "recording"
                   THEN Append(recorded, frameIndex) ELSE recorded
    /\ frameIndex' = frameIndex + 1
    /\ apc' = "timer"
    /\ UNCHANGED <<aFrames, aFps, aPromise, aRejects, aVideo, recQueue, chunks, aFailed>>
    /\ UNCHANGED aLoadFailed
    /\ aStartAt' = IF frameIndex = 0 THEN aClock ELSE aStartAt
    /\ UNCHANGED <<aClock, aStopAt, aLate>>
    /\ UNCHANGED <<envVars, mcpVars, appVars, codecVars, preVars, handleVars, viewVars, decodeVars, trackVars, extractVars, trimVars>>

\* a variant of img.onerror that aborts the assembly
AsmImgErrorAborts ==
    /\ apc = "loadImg"
    /\ aLoadFailed' = aLoadFailed \cup {frameIndex}
    /\ aPromise' = Settle(aPromise, "rejected")
    /\ aRejects' = aRejects + 1
    /\ apc' = "finished"
    /\ UNCHANGED <<aFrames, aFps, aVideo, frameIndex, recState, recQueue, chunks,
                   drawn, recorded, aFailed>>
    /\ UNCHANGED asmClock
    /\ UNCHANGED <<envVars, mcpVars, appVars, codecVars, preVars, handleVars, viewVars, decodeVars, trackVars, extractVars, trimVars>>

\* img.onerror of drawNextFrame: "Failed to load frame, skipping",
\* frameIndex++, setTimeout(drawNextFrame, 1000 / fps)
AsmImgError ==
    /\ apc = "loadImg"
    /\ aLoadFailed' = aLoadFailed \cup {frameIndex}
    /\ frameIndex' = frameIndex + 1
    /\ apc' = "timer"
    /\ UNCHANGED <<aFrames, aFps, aPromise, aRejects, aVideo, recState, recQueue,
                   chunks, drawn, recorded, aFailed>>
    /\ UNCHANGED asmClock
    /\ UNCHANGED <<envVars, mcpVars, appVars, codecVars, preVars, handleVars, viewVars, decodeVars, trackVars, extractVars, trimVars>>

\* the timer runs drawNextFrame: after the last frame the 100 ms stop timer
\* is set, otherwise the next image starts loading
AsmDrawNextFrame ==
    /\ apc = "timer"
    /\ apc' = IF frameIndex >= Len(aFrames) THEN "stopTimer" ELSE "loadImg"
    /\ UNCHANGED <<aFrames, aFps, aPromise, aRejects, aVideo, frameIndex, recState,
                   recQueue, chunks, drawn, recorded, aFailed>>
    /\ UNCHANGED aLoadFailed
    /\ aClock' = aClock + FrameDelay + aLate
    /\ UNCHANGED <<aStartAt, aStopAt, aLate>>
    /\ UNCHANGED <<envVars, mcpVars, appVars, codecVars, preVars, handleVars, viewVars, decodeVars, trackVars, extractVars, trimVars>>

\* a variant of the 100 ms timer that resolves as soon as it has called
\* stop(), without waiting for the stop event
AsmStopTimerResolves ==
    /\ apc = "stopTimer"
    /\ apc' = "finished"
    /\ IF recState = "recording"
       THEN recState' = "inactive" /\ recQueue' = recQueue \o <<"dataavailable", "stop">>
       ELSE UNCHANGED <<recState, recQueue>>
    /\ aPromise' = Settle(aPromise, "resolved")
    /\ aVideo' = IF aPromise = "pending"
                 THEN <<[chunks |-> chunks, frames |-> recorded, fps |-> aFps]>>
                 ELSE aVideo
    /\ UNCHANGED <<aFrames, aFps, aRejects, frameIndex, chunks, drawn, recorded, aFailed>>
    /\ UNCHANGED aLoadFailed
    /\ aClock' = aClock + StopDelay(aFps) + aLate
    /\ aStopAt' = IF recState = "recording" THEN aClock' ELSE aStopAt
    /\ UNCHANGED <<aStartAt, aLate>>
    /\ UNCHANGED <<envVars, mcpVars, appVars, codecVars, preVars, handleVars, viewVars, decodeVars, trackVars, extractVars, trimVars>>

\* the 100 ms timer: if (mediaRecorder.state === 'recording') mediaRecorder.stop()
\* stop() makes the recorder inactive and queues dataavailable, then stop
AsmStopTimer ==
    /\ apc = "stopTimer"
    /\ apc' = "finished"
    /\ IF recState = "recording"
       THEN recState' = "inactive" /\ recQueue' = recQueue \o <<"dataavailable", "stop">>
       ELSE UNCHANGED <<recState, recQueue>>
    /\ UNCHANGED <<aFrames, aFps, aPromise, aRejects, aVideo, frameIndex, chunks,
                   drawn, recorded, aFailed>>
    /\ UNCHANGED aLoadFailed
    /\ aClock' = aClock + StopDelay(aFps) + aLate
    /\ aStopAt' = IF recState = "recording" THEN aClock' ELSE aStopAt
    /\ UNCHANGED <<aStartAt, aLate>>
    /\ UNCHANGED <<envVars, mcpVars, appVars, codecVars, preVars, handleVars, viewVars, decodeVars, trackVars, extractVars, trimVars>>

\* the encoder fails while recording: the recorder becomes inactive and
\* queues error, dataavailable and stop
AsmEncoderFails ==
    /\ recState = "recording"
    /\ recState' = "inactive"
    /\ recQueue' = recQueue \o <<"error", "dataavailable", "stop">>
    /\ aFailed' = aFailed \cup {"encoder"}
    /\ UNCHANGED <<apc, aFrames, aFps, aPromise, aRejects, aVideo, frameIndex, chunks,
                   drawn, recorded>>
    /\ UNCHANGED aLoadFailed
    /\ aStopAt' = aClock
    /\ UNCHANGED <<aClock, aStartAt, aLate>>
    /\ UNCHANGED <<envVars, mcpVars, appVars, codecVars, preVars, handleVars, viewVars, decodeVars, trackVars, extractVars, trimVars>>

\* mediaRecorder.onerror: reject(new Error("MediaRecorder error"))
AsmOnError ==
    /\ recQueue # << >> /\ Head(recQueue) = "error"
    /\ recQueue' = Tail(recQueue)
    /\ aPromise' = Settle(aPromise, "rejected")
    /\ aRejects' = aRejects + 1
    /\ UNCHANGED <<apc, aFrames, aFps, aVideo, frameIndex, recState, chunks, drawn,
                   recorded, aFailed>>
    /\ UNCHANGED aLoadFailed
    /\ UNCHANGED asmClock
    /\ UNCHANGED <<envVars, mcpVars, appVars, codecVars, preVars, handleVars, viewVars, decodeVars, trackVars, extractVars, trimVars>>

\* mediaRecorder.ondataavailable: if (e.data && e.data.size > 0) chunks.push(e.data)
AsmOnDataAvailable ==
    /\ recQueue # << >> /\ Head(recQueue) = "dataavailable"
    /\ recQueue' = Tail(recQueue)
    /\ \E size \in {0, 1} :
          chunks' = IF size > 0 THEN Append(chunks, [size |-> size, frames |-> recorded])
                    ELSE chunks
    /\ UNCHANGED <<apc, aFrames, aFps, aPromise, aRejects, aVideo, frameIndex, recState,
                   drawn, recorded, aFailed>>
    /\ UNCHANGED aLoadFailed
    /\ UNCHANGED asmClock
    /\ UNCHANGED <<envVars, mcpVars, appVars, codecVars, preVars, handleVars, viewVars, decodeVars, trackVars, extractVars, trimVars>>

\* mediaRecorder.onstop: new Blob(chunks), resolve(videoUrl)
AsmOnStop ==
    /\ recQueue # << >> /\ Head(recQueue) = "stop"
    /\ recQueue' = Tail(recQueue)
    /\ aPromise' = Settle(aPromise, "resolved")
    /\ aVideo' = IF aPromise = "pending"
                 THEN <<[chunks |-> chunks, frames |-> recorded, fps |-> aFps]>>
                 ELSE aVideo
    /\ UNCHANGED <<apc, aFrames, aFps, aRejects, frameIndex, recState, chunks, drawn,
                   recorded, aFailed>>
    /\ UNCHANGED aLoadFailed
    /\ UNCHANGED asmClock
    /\ UNCHANGED <<envVars, mcpVars, appVars, codecVars, preVars, handleVars, viewVars, decodeVars, trackVars, extractVars, trimVars>>

NextAsm ==
    \/ AsmFirstFrameLoaded
    \/ AsmFirstFrameError
    \/ AsmImgLoaded
    \/ AsmImgError
    \/ AsmDrawNextFrame
    \/ AsmStopTimer
    \/ AsmEncoderFails
    \/ AsmOnError
    \/ AsmOnDataAvailable
    \/ AsmOnStop

\* ----------------------------------------------------------- trimVideoFile
\* `Math.abs(video.currentTime - startTime) < 0.5`, in quarter-second ticks
HalfSecond == 2

\* no trim operation exists
TrimNone ==
    /\ trpc = "none" /\ trArgs = [startTime |-> 0, endTime |-> 0] /\ trVideoDur = 0
    /\ trTime = 0 /\ trSeeking = FALSE /\ trPlay = "none" /\ trPaused = TRUE
    /\ trEnded = FALSE /\ trAttached = FALSE /\ isRecording = FALSE
    /\ trRec = "none" /\ trQueue = << >> /\ trChunks = << >> /\ trRaf = FALSE
    /\ trPromise = "pending" /\ trProgress = {} /\ trDrawnAt = {} /\ trFailed = {}
    /\ trFile = << >>

Abs(x) == IF x < 0 THEN 0 - x ELSE x

\* a variant of the progress value without Math.max(0, ...)
ProgressValueNoFloor(current, span) ==
    IF span = 0
    THEN IF current = 0 THEN [num |-> 0, den |-> 0]
         ELSE IF current > 0 THEN [num |-> 100, den |-> 1]
         ELSE [num |-> 0, den |-> 1]
    ELSE LET n == IF span < 0 THEN 0 - current ELSE current
             d == Abs(span)
         IN IF n >= d THEN [num |-> 100, den |-> 1]
            ELSE [num |-> 100 * n, den |-> d]

\* Math.min(100, Math.max(0, (current / duration) * 100)) as the fraction
\* num/den; 0/0 stands for NaN (Math.max(0, NaN) and Math.min(100, NaN) are NaN)
ProgressValue(current, span) ==
    IF span = 0
    THEN IF current = 0 THEN [num |-> 0, den |-> 0]
         ELSE IF current > 0 THEN [num |-> 100, den |-> 1]
         ELSE [num |-> 0, den |-> 1]
    ELSE LET n == IF span < 0 THEN 0 - current ELSE current
             d == Abs(span)
         IN IF n <= 0 THEN [num |-> 0, den |-> 1]
            ELSE IF n >= d THEN [num |-> 100, den |-> 1]
            ELSE [num |-> 100 * n, den |-> d]

\* the call trimVideoFile(sourceFile, startTime, endTime, onProgress) up to
\* the end of the promise executor
TrimCall(startTime, endTime, dur) ==
    /\ trArgs' = [startTime |-> startTime, endTime |-> endTime]
    /\ trVideoDur' = dur
    /\ trTime' = 0 /\ trSeeking' = FALSE /\ trPlay' = "none" /\ trPaused' = TRUE
    /\ trEnded' = FALSE /\ isRecording' = FALSE
    /\ trRec' = "none" /\ trQueue' = << >> /\ trChunks' = << >> /\ trRaf' = FALSE
    /\ trProgress' = {} /\ trDrawnAt' = {} /\ trFailed' = {}
    /\ trFile' = << >>
    /\ IF ~ctx2d
       THEN trpc' = "live" /\ trAttached' = FALSE /\ trPromise' = "rejected"
       ELSE trpc' = "loading" /\ trAttached' = TRUE /\ trPromise' = "pending"

\* video.onloadedmetadata: the canvas is sized and `video.currentTime =
\* startTime` seeks; the position is clamped to the duration
TrimLoadedMetadata ==
    /\ trpc = "loading" /\ trAttached
    /\ trpc' = "live"
    /\ trTime' = IF trArgs.startTime > trVideoDur THEN trVideoDur ELSE trArgs.startTime
    /\ trSeeking' = TRUE
    /\ UNCHANGED <<trArgs, trVideoDur, trPlay, trPaused, trEnded, trAttached,
                   isRecording, trRec, trQueue, trChunks, trRaf, trPromise,
                   trProgress, trDrawnAt, trFailed>>
    /\ UNCHANGED trFile
    /\ UNCHANGED <<envVars, mcpVars, appVars, codecVars, preVars, handleVars, viewVars, decodeVars, trackVars, extractVars, asmVars>>

\* cleanup(): cancelAnimationFrame, the video leaves the document (which
\* pauses it), the object URL is revoked
TrimCleanup ==
    /\ trRaf' = FALSE
    /\ trAttached' = FALSE
    /\ trPaused' = TRUE

\* stopRecording(): isRecording = false, video.pause(), mediaRecorder.stop()
\* unless it is inactive; stop() queues dataavailable, then stop
TrimStopRecording ==
    /\ isRecording' = FALSE
    /\ trPaused' = TRUE
    /\ IF trRec = "recording"
       THEN trRec' = "inactive" /\ trQueue' = trQueue \o <<"dataavailable", "stop">>
       ELSE UNCHANGED <<trRec, trQueue>>

\* a variant of processFrame() that draws and reports once more before it
\* stops at the end
TrimProcessFrameDrawsLast ==
    IF ~isRecording
    THEN /\ trRaf' = FALSE
         /\ UNCHANGED <<isRecording, trPaused, trRec, trQueue, trProgress, trDrawnAt>>
    ELSE /\ trDrawnAt' = trDrawnAt \cup {trTime}
         /\ trProgress' = trProgress \cup
                {ProgressValue(trTime - trArgs.startTime,
                               trArgs.endTime - trArgs.startTime)}
         /\ IF trEnded \/ trTime >= trArgs.endTime
            THEN TrimStopRecording /\ trRaf' = FALSE
            ELSE trRaf' = TRUE /\ UNCHANGED <<isRecording, trPaused, trRec, trQueue>>

\* processFrame(): nothing unless recording; at endTime or at the end of the
\* video stopRecording(); otherwise draw, report progress, request the next
\* animation frame
TrimProcessFrame ==
    IF ~isRecording
    THEN /\ trRaf' = FALSE
         /\ UNCHANGED <<isRecording, trPaused, trRec, trQueue, trProgress, trDrawnAt>>
    ELSE IF trEnded \/ trTime >= trArgs.endTime
         THEN /\ TrimStopRecording
              /\ trRaf' = FALSE
              /\ UNCHANGED <<trProgress, trDrawnAt>>
         ELSE /\ trDrawnAt' = trDrawnAt \cup {trTime}
              /\ trProgress' = trProgress \cup
                     {ProgressValue(trTime - trArgs.startTime,
                                    trArgs.endTime - trArgs.startTime)}
              /\ trRaf' = TRUE
              /\ UNCHANGED <<isRecording, trPaused, trRec, trQueue>>

\* a variant of video.onseeked without the `!isRecording` test
TrimSeekedRestarts ==
    /\ trpc = "live" /\ trSeeking
    /\ IF trTime < trArgs.endTime
          /\ Abs(trTime - trArgs.startTime) < HalfSecond
       THEN /\ isRecording' = TRUE
            /\ \E firstThrows, secondThrows \in BOOLEAN :
                  /\ trOptions' = trOptions \o <<trimRecorderOptions>>
                                      \o (IF firstThrows THEN <<NoMimeType>> ELSE << >>)
                  /\ IF firstThrows /\ secondThrows
                     THEN /\ trFailed' = trFailed \cup {"ctor"}
                          /\ trSeeking' = FALSE
                          /\ UNCHANGED <<trRec, trPlay, trPaused, trTime>>
                     ELSE /\ trRec' = "recording"
                          /\ trPlay' = "pending"
                          /\ trPaused' = FALSE
                          /\ trTime' = IF trTime >= trVideoDur THEN 0 ELSE trTime
                          /\ trSeeking' = (trTime >= trVideoDur)
                          /\ UNCHANGED trFailed
       ELSE /\ trSeeking' = FALSE
            /\ UNCHANGED <<isRecording, trRec, trPlay, trPaused, trTime, trFailed, trOptions>>
    /\ UNCHANGED <<trpc, trArgs, trVideoDur, trEnded, trAttached,
                   trQueue, trChunks, trRaf, trPromise, trProgress, trDrawnAt>>
    /\ UNCHANGED trFile
    /\ UNCHANGED <<supported, aOptions>>
    /\ UNCHANGED <<envVars, mcpVars, appVars, preVars, handleVars, viewVars, decodeVars, trackVars, extractVars, asmVars>>

\* video.onseeked: unless recording already, and if the position is before
\* endTime and within half a second of startTime, startRecording():
\* isRecording = true, the MediaRecorder is constructed (with the options,
\* and once more without them when that throws), started, and video.play()
\* is called, which seeks to the start when the position is the end of the
\* video.  When both constructions throw, the handler ends there.
TrimSeeked ==
    /\ trpc = "live" /\ trSeeking
    /\ IF ~isRecording /\ trTime < trArgs.endTime
          /\ Abs(trTime - trArgs.startTime) < HalfSecond
       THEN /\ isRecording' = TRUE
            /\ \E firstThrows, secondThrows \in BOOLEAN :
                  /\ trOptions' = trOptions \o <<trimRecorderOptions>>
                                      \o (IF firstThrows THEN <<NoMimeType>> ELSE << >>)
                  /\ IF firstThrows /\ secondThrows
                     THEN /\ trFailed' = trFailed \cup {"ctor"}
                          /\ trSeeking' = FALSE
                          /\ UNCHANGED <<trRec, trPlay, trPaused, trTime>>
                     ELSE /\ trRec' = "recording"
                          /\ trPlay' = "pending"
                          /\ trPaused' = FALSE
                          /\ trTime' = IF trTime >= trVideoDur THEN 0 ELSE trTime
                          /\ trSeeking' = (trTime >= trVideoDur)
                          /\ UNCHANGED trFailed
       ELSE /\ trSeeking' = FALSE
            /\ UNCHANGED <<isRecording, trRec, trPlay, trPaused, trTime, trFailed, trOptions>>
    /\ UNCHANGED <<trpc, trArgs, trVideoDur, trEnded, trAttached,
                   trQueue, trChunks, trRaf, trPromise, trProgress, trDrawnAt>>
    /\ UNCHANGED trFile
    /\ UNCHANGED <<supported, aOptions>>
    /\ UNCHANGED <<envVars, mcpVars, appVars, preVars, handleVars, viewVars, decodeVars, trackVars, extractVars, asmVars>>

\* video.play() resolves: playback runs and processFrame() is called
TrimPlayStarted ==
    /\ trPlay = "pending" /\ trAttached
    /\ trPlay' = "resolved"
    /\ TrimProcessFrame
    /\ UNCHANGED <<trpc, trArgs, trVideoDur, trTime, trSeeking, trEnded, trAttached,
                   trChunks, trPromise, trFailed>>
    /\ UNCHANGED trFile
    /\ UNCHANGED <<envVars, mcpVars, appVars, codecVars, preVars, handleVars, viewVars, decodeVars, trackVars, extractVars, asmVars>>

\* video.play() rejects: cleanup(); reject(err)
TrimPlayRejected ==
    /\ trPlay = "pending"
    /\ trPlay' = "rejected"
    /\ TrimCleanup
    /\ trPromise' = Settle(trPromise, "rejected")
    /\ trFailed' = trFailed \cup {"play"}
    /\ UNCHANGED <<trpc, trArgs, trVideoDur, trTime, trSeeking, trEnded, isRecording,
                   trRec, trQueue, trChunks, trProgress, trDrawnAt>>
    /\ UNCHANGED trFile
    /\ UNCHANGED <<envVars, mcpVars, appVars, codecVars, preVars, handleVars, viewVars, decodeVars, trackVars, extractVars, asmVars>>

\* the animation frame runs processFrame
TrimAnimationFrame ==
    /\ trRaf
    /\ TrimProcessFrame
    /\ UNCHANGED <<trpc, trArgs, trVideoDur, trTime, trSeeking, trPlay, trEnded,
                   trAttached, trChunks, trPromise, trFailed>>
    /\ UNCHANGED trFile
    /\ UNCHANGED <<envVars, mcpVars, appVars, codecVars, preVars, handleVars, viewVars, decodeVars, trackVars, extractVars, asmVars>>

\* playback advances by one tick; at the duration the video has ended.
\* The position does not move while a seek is in progress: the seeked event
\* of play()'s seek to the start is delivered before playback goes on.
TrimPlaybackAdvances ==
    /\ trPlay = "resolved" /\ ~trPaused /\ ~trEnded /\ trAttached
    /\ ~trSeeking
    /\ trTime < trVideoDur
    /\ trTime' = trTime + 1
    /\ trEnded' = (trTime + 1 >= trVideoDur)
    /\ UNCHANGED <<trpc, trArgs, trVideoDur, trSeeking, trPlay, trPaused, trAttached,
                   isRecording, trRec, trQueue, trChunks, trRaf, trPromise,
                   trProgress, trDrawnAt, trFailed>>
    /\ UNCHANGED trFile
    /\ UNCHANGED <<envVars, mcpVars, appVars, codecVars, preVars, handleVars, viewVars, decodeVars, trackVars, extractVars, asmVars>>

\* video.onerror: cleanup(); reject(new Error("Video playback error"))
TrimVideoError ==
    /\ trpc \in {"loading", "live"} /\ trAttached
    /\ TrimCleanup
    /\ trPromise' = Settle(trPromise, "rejected")
    /\ trFailed' = trFailed \cup {"video"}
    /\ UNCHANGED <<trpc, trArgs, trVideoDur, trTime, trSeeking, trPlay, trEnded,
                   isRecording, trRec, trQueue, trChunks, trProgress, trDrawnAt>>
    /\ UNCHANGED trFile
    /\ UNCHANGED <<envVars, mcpVars, appVars, codecVars, preVars, handleVars, viewVars, decodeVars, trackVars, extractVars, asmVars>>

\* the encoder fails while recording: the recorder becomes inactive and
\* queues error, dataavailable and stop
TrimEncoderFails ==
    /\ trRec = "recording"
    /\ trRec' = "inactive"
    /\ trQueue' = trQueue \o <<"error", "dataavailable", "stop">>
    /\ trFailed' = trFailed \cup {"encoder"}
    /\ UNCHANGED <<trpc, trArgs, trVideoDur, trTime, trSeeking, trPlay, trPaused,
                   trEnded, trAttached, isRecording, trChunks, trRaf, trPromise,
                   trProgress, trDrawnAt>>
    /\ UNCHANGED trFile
    /\ UNCHANGED <<envVars, mcpVars, appVars, codecVars, preVars, handleVars, viewVars, decodeVars, trackVars, extractVars, asmVars>>

\* the recorder's error event: trimVideoFile sets no onerror handler
TrimOnRecorderError ==
    /\ trQueue # << >> /\ Head(trQueue) = "error"
    /\ trQueue' = Tail(trQueue)
    /\ UNCHANGED <<trpc, trArgs, trVideoDur, trTime, trSeeking, trPlay, trPaused,
                   trEnded, trAttached, isRecording, trRec, trChunks, trRaf, trPromise,
                   trProgress, trDrawnAt, trFailed>>
    /\ UNCHANGED trFile
    /\ UNCHANGED <<envVars, mcpVars, appVars, codecVars, preVars, handleVars, viewVars, decodeVars, trackVars, extractVars, asmVars>>

\* mediaRecorder.ondataavailable: if (e.data && e.data.size > 0) chunks.push(e.data)
TrimOnDataAvailable ==
    /\ trQueue # << >> /\ Head(trQueue) = "dataavailable"
    /\ trQueue' = Tail(trQueue)
    /\ \E size \in {0, 1} :
          trChunks' = IF size > 0 THEN Append(trChunks, [size |-> size, drawn |-> trDrawnAt])
                      ELSE trChunks
    /\ UNCHANGED <<trpc, trArgs, trVideoDur, trTime, trSeeking, trPlay, trPaused,
                   trEnded, trAttached, isRecording, trRec, trRaf, trPromise,
                   trProgress, trDrawnAt, trFailed>>
    /\ UNCHANGED trFile
    /\ UNCHANGED <<envVars, mcpVars, appVars, codecVars, preVars, handleVars, viewVars, decodeVars, trackVars, extractVars, asmVars>>

\* mediaRecorder.onstop: the file is built, cleanup(), resolve(file)
TrimOnStop ==
    /\ trQueue # << >> /\ Head(trQueue) = "stop"
    /\ trQueue' = Tail(trQueue)
    /\ TrimCleanup
    /\ trPromise' = Settle(trPromise, "resolved")
    /\ UNCHANGED <<trpc, trArgs, trVideoDur, trTime, trSeeking, trPlay, trEnded,
                   isRecording, trRec, trChunks, trProgress, trDrawnAt, trFailed>>
    /\ trFile' = IF trPromise = "pending" THEN <<[chunks |-> trChunks]>> ELSE trFile
    /\ UNCHANGED <<envVars, mcpVars, appVars, codecVars, preVars, handleVars, viewVars, decodeVars, trackVars, extractVars, asmVars>>

NextTrim ==
    \/ TrimLoadedMetadata
    \/ TrimSeeked
    \/ TrimPlayStarted
    \/ TrimPlayRejected
    \/ TrimAnimationFrame
    \/ TrimPlaybackAdvances
    \/ TrimVideoError
    \/ TrimEncoderFails
    \/ TrimOnRecorderError
    \/ TrimOnDataAvailable
    \/ TrimOnStop

\* ------------------------------------------- trackVideoText: rate estimate
\* a variant of the call that hands the extractor the estimated source rate
TrackCallExtractAtSourceRate(fps) ==
    ExtractCall(frameIndicesOf(dataFrames), originalFPSOf(fps))

\* const originalFrames = await extractVideoFrames(file, frameIndices, sam3FPS)
TrackCallExtract(fps) == ExtractCall(frameIndicesOf(dataFrames), fps)

\* tempVideo.onloadedmetadata: duration, sam3FPS and originalFPS are resolved
TrackLoadedMetadata ==
    /\ tpc = "metadata"
    /\ LET maxFrameIdx == SeqMax(FrameIdxList(dataFrames))
           fps == sam3FPSOf(videoDuration, maxFrameIdx)
       IN /\ sam3FPS' = fps
          /\ originalFPS' = originalFPSOf(fps)
          /\ TrackCallExtract(fps)
    /\ tpc' = "extract"
    /\ duration' = videoDuration
    /\ UNCHANGED <<variant, dataFrames, ri, renderedFrames, tResult>>
    /\ UNCHANGED <<envVars, mcpVars, appVars, codecVars, preVars, handleVars, viewVars, decodeVars, asmVars, trimVars>>

\* tempVideo.onerror: resolve({ duration: 10, sam3FPS: 30, originalFPS: 30 })
TrackMetadataError ==
    /\ tpc = "metadata"
    /\ sam3FPS' = DefaultFPS
    /\ originalFPS' = DefaultFPS
    /\ TrackCallExtract(DefaultFPS)
    /\ tpc' = "extract"
    /\ duration' = FallbackDuration
    /\ UNCHANGED <<variant, dataFrames, ri, renderedFrames, tResult>>
    /\ UNCHANGED <<envVars, mcpVars, appVars, codecVars, preVars, handleVars, viewVars, decodeVars, asmVars, trimVars>>

\* ----------------------------------------------------- renderMasksOnFrame
colors ==
    << <<255, 0, 0>>, <<0, 255, 0>>, <<0, 0, 255>>, <<255, 255, 0>>, <<255, 0, 255>>,
       <<0, 255, 255>>, <<255, 165, 0>>, <<128, 0, 128>>, <<255, 192, 203>>,
       <<0, 128, 0>> >>

\* return colors[objId % colors.length]
colorForObjectId(objId) == colors[(objId % Len(colors)) + 1]

\* const objId = objectIds[i] || i   (i is 0-based; 0 and undefined are falsy)
ObjIdAt(objectIds, i) ==
    IF i < Len(objectIds) /\ objectIds[i + 1] # 0 THEN objectIds[i + 1] ELSE i

\* --------------------------------------------------- decodeRLEToImageData
\* no call of a decoder on its own is in progress
NoDecodeResult == [threw |-> FALSE, width |-> 0, height |-> 0, written |-> {}]

DecodeNone ==
    /\ dpc = "none" /\ dBitmap = << >>
    /\ dArgs = [fn |-> "none", masks |-> << >>, width |-> 0, height |-> 0]
    /\ dResult = NoDecodeResult

Min(a, b) == IF a < b THEN a ELSE b

\* new ImageData(width, height) and ctx.createImageData(width, height) throw
\* an IndexSizeError when a dimension is 0
ImageDataThrows(width, height) == width = 0 \/ height = 0

\* the variant of the inner loop with the bound j <= endIdx
RunWritesInclusiveEnd(p, count, width, height) ==
    {j \in p..Min(p + count, width * height) : j * 4 + 3 < 4 * width * height}

\* the pixels one run writes: for (j = p; j < endIdx; j++) with
\* endIdx = Math.min(p + count, width * height), under the guard
\* idx + 3 < data.length where idx = j * 4 and data.length = 4 * width * height
RunWrites(p, count, width, height) ==
    {j \in p..(Min(p + count, width * height) - 1) : j * 4 + 3 < 4 * width * height}

\* the variant of the run loop that starts with a foreground run
RECURSIVE DecodeRunsForegroundFirst(_, _, _, _, _, _, _)
DecodeRunsForegroundFirst(counts, i, p, val, width, height, written) ==
    IF i >= Len(counts) THEN written
    ELSE DecodeRunsForegroundFirst(counts, i + 1, p + counts[i + 1], 1 - val, width, height,
             IF val = 0 THEN written \cup RunWrites(p, counts[i + 1], width, height)
             ELSE written)

\* the loop `for (let i = 0; i < counts.length; i++)` from position i with
\* the cursor p and the run value val: the set of pixels set to white
RECURSIVE DecodeRuns(_, _, _, _, _, _, _)
DecodeRuns(counts, i, p, val, width, height, written) ==
    IF i >= Len(counts) THEN written
    ELSE DecodeRuns(counts, i + 1, p + counts[i + 1], 1 - val, width, height,
             IF val = 1 THEN written \cup RunWrites(p, counts[i + 1], width, height)
             ELSE written)

\* decodeRLEToImageData(mask, width, height): the ImageData returned (its
\* dimensions and the pixels set to white), or a throw
decodeRLEToImageData(mask, width, height) ==
    IF ImageDataThrows(width, height)
    THEN [NoDecodeResult EXCEPT !.threw = TRUE]
    ELSE [threw |-> FALSE, width |-> width, height |-> height,
          written |-> DecodeRuns(mask.counts, 0, 0, 0, width, height, {})]

\* the composite of decodeMasksToDataURL: every mask's runs written into the
\* one ImageData of the first mask's size
RECURSIVE CompositeWrites(_, _, _, _)
CompositeWrites(masks, maskIdx, width, height) ==
    IF maskIdx >= Len(masks) THEN {}
    ELSE DecodeRuns(masks[maskIdx + 1].counts, 0, 0, 0, width, height, {})
             \cup CompositeWrites(masks, maskIdx + 1, width, height)

\* decodeMasksToDataURL(masks): the picture behind the data URL, or the
\* empty string (no picture) for no masks, no context, or a caught throw
decodeMasksToDataURL(masks, ctx) ==
    IF Len(masks) = 0 THEN NoDecodeResult
    ELSE LET height == masks[1].size[1]
             width == masks[1].size[2]
         IN IF ~ctx THEN NoDecodeResult
            ELSE IF ImageDataThrows(width, height) THEN NoDecodeResult
            ELSE [threw |-> FALSE, width |-> width, height |-> height,
                  written |-> CompositeWrites(masks, 0, width, height)]

\* decodeRLEToImageData(mask, maskWidth, maskHeight) raises when
\* new ImageData(width, height) is given a zero dimension
DecodeThrows(mask) == mask.size[1] = 0 \/ mask.size[2] = 0

\* a variant of the mask loop that composites each overlay beneath the ones
\* already drawn
RECURSIVE DrawMasksBeneath(_, _, _, _)
DrawMasksBeneath(masks, objectIds, i, overlays) ==
    IF i >= Len(masks) THEN [threw |-> FALSE, overlays |-> overlays]
    ELSE IF DecodeThrows(masks[i + 1]) THEN [threw |-> TRUE, overlays |-> overlays]
    ELSE DrawMasksBeneath(masks, objectIds, i + 1,
             <<[pos |-> i, mask |-> masks[i + 1],
                color |-> colorForObjectId(ObjIdAt(objectIds, i))]>> \o overlays)

\* the mask loop of renderMasksOnFrame from position i: every mask is decoded
\* and its overlay composited in list order; a decode error leaves the loop
RECURSIVE DrawMasksFrom(_, _, _, _)
DrawMasksFrom(masks, objectIds, i, overlays) ==
    IF i >= Len(masks) THEN [threw |-> FALSE, overlays |-> overlays]
    ELSE IF DecodeThrows(masks[i + 1]) THEN [threw |-> TRUE, overlays |-> overlays]
    ELSE DrawMasksFrom(masks, objectIds, i + 1,
             Append(overlays, [pos |-> i, mask |-> masks[i + 1],
                               color |-> colorForObjectId(ObjIdAt(objectIds, i))]))

\* a variant whose mask loop catches the decode error of a mask and goes on
\* with the next mask
renderMasksSkippingFailed(frameImage, masks, objectIds, ctx) ==
    IF ~ctx THEN [threw |-> TRUE, overlays |-> << >>]
    ELSE LET idx == SelectSeq([k \in 1..Len(masks) |-> k - 1],
                              LAMBDA i : ~DecodeThrows(masks[i + 1]))
         IN [threw |-> FALSE,
             overlays |-> [j \in 1..Len(idx) |->
                              [pos |-> idx[j], mask |-> masks[idx[j] + 1],
                               color |-> colorForObjectId(ObjIdAt(objectIds, idx[j]))]]]

\* renderMasksOnFrame(frameImage, masks, objectIds, 0.7): the annotated
\* picture (the frame and the overlays drawn on it, bottom first), or a throw
renderMasksOnFrame(frameImage, masks, objectIds, ctx) ==
    IF ~ctx THEN [threw |-> TRUE, overlays |-> << >>]
    ELSE DrawMasksFrom(masks, objectIds, 0, << >>)

\* an annotated frame: the index whose picture it shows, the packet whose
\* masks were composited, and the overlays
Annotated(frame, frameIdx, overlays) ==
    [src |-> frame.src, packet |-> frameIdx, overlays |-> overlays]

\* ------------------------------------------- trackVideoText: render loop
\* `await extractVideoFrames(...)` returned
TrackExtracted ==
    /\ tpc = "extract" /\ xpc = "resolved"
    /\ tpc' = "render"
    /\ ri' = 0
    /\ renderedFrames' = << >>
    /\ UNCHANGED <<variant, dataFrames, duration, sam3FPS, originalFPS, tResult>>
    /\ UNCHANGED <<envVars, mcpVars, appVars, codecVars, preVars, handleVars, viewVars, decodeVars, extractVars, asmVars, trimVars>>

\* `await extractVideoFrames(...)` threw: catch (error) { throw error }
TrackExtractFailed ==
    /\ tpc = "extract" /\ xpc = "rejected"
    /\ tpc' = "done"
    /\ tResult' = [NoResult EXCEPT !.status = "rejected"]
    /\ UNCHANGED <<variant, dataFrames, duration, sam3FPS, originalFPS, ri, renderedFrames>>
    /\ UNCHANGED <<envVars, mcpVars, appVars, codecVars, preVars, handleVars, viewVars, decodeVars, extractVars, asmVars, trimVars>>

\* a variant whose no-mask branch draws the first extracted picture instead
\* of the packet's own
RenderedForFirstPicture(frameData) ==
    LET frameIndices == frameIndicesOf(dataFrames)
        frameIndexInArray == IndexOf(frameIndices, frameData.frame_idx)
    IN IF frameIndexInArray = 0 - 1 \/ frameIndexInArray >= Len(originalFrames)
       THEN << >>
       ELSE LET originalFrame == originalFrames[frameIndexInArray + 1]
                plain == IF ctx2d
                         THEN <<Annotated(originalFrame, frameData.frame_idx, << >>)>>
                         ELSE << >>
            IN IF Len(frameData.masks) > 0
               THEN LET r == renderMasksOnFrame(originalFrame, frameData.masks,
                                                frameData.object_ids, ctx2d)
                    IN IF r.threw THEN plain
                       ELSE <<Annotated(originalFrame, frameData.frame_idx, r.overlays)>>
               ELSE IF ctx2d
                    THEN <<Annotated(originalFrames[1], frameData.frame_idx, << >>)>>
                    ELSE << >>

\* what one pass of the render loop pushes for data.frames[i]
RenderedFor(frameData) ==
    LET frameIndices == frameIndicesOf(dataFrames)
        frameIndexInArray == IndexOf(frameIndices, frameData.frame_idx)
    IN IF frameIndexInArray = 0 - 1 \/ frameIndexInArray >= Len(originalFrames)
       THEN << >>
       ELSE LET originalFrame == originalFrames[frameIndexInArray + 1]
                plain == IF ctx2d
                         THEN <<Annotated(originalFrame, frameData.frame_idx, << >>)>>
                         ELSE << >>
            IN IF Len(frameData.masks) > 0
               THEN LET r == renderMasksOnFrame(originalFrame, frameData.masks,
                                                frameData.object_ids, ctx2d)
                    IN IF r.threw THEN plain
                       ELSE <<Annotated(originalFrame, frameData.frame_idx, r.overlays)>>
               ELSE plain

\* one pass of `for (let i = 0; i < data.frames.length; i++)`
TrackRenderFrame ==
    /\ tpc = "render" /\ ri < Len(dataFrames)
    /\ renderedFrames' = renderedFrames \o RenderedFor(dataFrames[ri + 1])
    /\ ri' = ri + 1
    /\ UNCHANGED <<variant, tpc, dataFrames, duration, sam3FPS, originalFPS, tResult>>
    /\ UNCHANGED <<envVars, mcpVars, appVars, codecVars, preVars, handleVars, viewVars, decodeVars, extractVars, asmVars, trimVars>>

ObjectCount == Len(dataFrames[1].object_ids)

\* a variant that throws when the loop rendered nothing
TrackRenderDoneThrows ==
    /\ tpc = "render" /\ ri >= Len(dataFrames)
    /\ IF Len(renderedFrames) = 0
       THEN /\ tpc' = "done"
            /\ tResult' = [NoResult EXCEPT !.status = "rejected"]
            /\ UNCHANGED asmVars
       ELSE /\ tpc' = "assemble"
            /\ AsmCall(renderedFrames, originalFPS)
            /\ UNCHANGED tResult
    /\ UNCHANGED <<variant, dataFrames, duration, sam3FPS, originalFPS, ri, renderedFrames>>
    /\ UNCHANGED <<envVars, mcpVars, appVars, codecVars, preVars, handleVars, viewVars, decodeVars, extractVars, trimVars>>

\* after the loop: "No frames rendered." or the call of createVideoFromFrames
TrackRenderDone ==
    /\ tpc = "render" /\ ri >= Len(dataFrames)
    /\ IF Len(renderedFrames) = 0
       THEN /\ tpc' = "done"
            /\ tResult' = [NoResult EXCEPT !.status = "returned",
                                           !.text = "No frames rendered."]
            /\ UNCHANGED asmVars
       ELSE /\ tpc' = "assemble"
            /\ AsmCall(renderedFrames, originalFPS)
            /\ UNCHANGED tResult
    /\ UNCHANGED <<variant, dataFrames, duration, sam3FPS, originalFPS, ri, renderedFrames>>
    /\ UNCHANGED <<envVars, mcpVars, appVars, codecVars, preVars, handleVars, viewVars, decodeVars, extractVars, trimVars>>

\* `await createVideoFromFrames(...)` returned the video
TrackVideoCreated ==
    /\ tpc = "assemble" /\ aPromise = "resolved"
    /\ tpc' = "done"
    /\ tResult' = [status |-> "returned",
                   text |-> IF variant = "text" THEN "Tracked N frames. Found M object(s)."
                            ELSE "Fast tracked N frames. Found M object(s).",
                   n |-> Len(dataFrames), m |-> ObjectCount,
                   mediaType |-> "video",
                   media |-> aVideo,
                   trackingFrames |-> renderedFrames]
    /\ UNCHANGED <<variant, dataFrames, duration, sam3FPS, originalFPS, ri, renderedFrames>>
    /\ UNCHANGED <<envVars, mcpVars, appVars, codecVars, preVars, handleVars, viewVars, decodeVars, extractVars, asmVars, trimVars>>

\* a variant whose catch block rethrows the assembler's error
TrackVideoFailedRethrows ==
    /\ tpc = "assemble" /\ aPromise = "rejected"
    /\ tpc' = "done"
    /\ tResult' = [NoResult EXCEPT !.status = "rejected"]
    /\ UNCHANGED <<variant, dataFrames, duration, sam3FPS, originalFPS, ri, renderedFrames>>
    /\ UNCHANGED <<envVars, mcpVars, appVars, codecVars, preVars, handleVars, viewVars, decodeVars, extractVars, asmVars, trimVars>>

\* `await createVideoFromFrames(...)` threw: the first frame as an image
TrackVideoFailed ==
    /\ tpc = "assemble" /\ aPromise = "rejected"
    /\ tpc' = "done"
    /\ tResult' = [status |-> "returned",
                   text |-> IF variant = "text"
                            THEN "Tracked N frames. Found M object(s). (Video creation failed, showing first frame)"
                            ELSE "Fast tracked N frames. Found M object(s). (Video creation failed, showing first frame)",
                   n |-> Len(dataFrames), m |-> ObjectCount,
                   mediaType |-> "image",
                   media |-> <<renderedFrames[1]>>,
                   trackingFrames |-> renderedFrames]
    /\ UNCHANGED <<variant, dataFrames, duration, sam3FPS, originalFPS, ri, renderedFrames>>
    /\ UNCHANGED <<envVars, mcpVars, appVars, codecVars, preVars, handleVars, viewVars, decodeVars, extractVars, asmVars, trimVars>>

NextTrackSteps ==
    \/ TrackLoadedMetadata
    \/ TrackMetadataError
    \/ TrackExtracted
    \/ TrackExtractFailed
    \/ TrackRenderFrame
    \/ TrackRenderDone
    \/ TrackVideoCreated
    \/ TrackVideoFailed

\* ------------------------------------------- trackVideoText: pre-flight
\* trackVideoText has not been called on a file
PreflightNone == fileSize = 0 /\ tBegun = {}

\* the limits of the two size checks, in half megabytes
FileLimit == 2 * 50
Base64Limit == 2 * 70

\* videoBase64.length for a file of `size`, in sixths of a megabyte: base64
\* writes 4 characters for every 3 bytes
Base64Length(size) == 4 * size

\* base64SizeMB = (videoBase64.length * 3 / 4) / 1024 / 1024, in half megabytes
base64SizeOf(length) == (length * 3) \div (4 * 3)

\* the operation throws new Error(message); catch (error) { throw error }
PreflightRejects(message) ==
    /\ tpc' = "done"
    /\ tResult' = [NoResult EXCEPT !.status = "rejected", !.text = message]

\* a variant of the first check that lets every file through
PreflightCheckSizeNone ==
    /\ tpc = "preflight"
    /\ tpc' = "base64"
    /\ tBegun' = tBegun \cup {"base64"}
    /\ UNCHANGED tResult
    /\ UNCHANGED <<fileSize, variant, dataFrames, duration, sam3FPS, originalFPS, ri,
                   renderedFrames>>
    /\ UNCHANGED <<envVars, mcpVars, appVars, codecVars, handleVars, viewVars, decodeVars, extractVars, asmVars, trimVars>>

\* if (fileSizeMB > 50) throw ...; otherwise fileToBase64(file) starts
PreflightCheckSize ==
    /\ tpc = "preflight"
    /\ IF fileSize > FileLimit
       THEN /\ PreflightRejects("Video file too large. Maximum size is 50MB.")
            /\ UNCHANGED tBegun
       ELSE /\ tpc' = "base64"
            /\ tBegun' = tBegun \cup {"base64"}
            /\ UNCHANGED tResult
    /\ UNCHANGED <<fileSize, variant, dataFrames, duration, sam3FPS, originalFPS, ri,
                   renderedFrames>>
    /\ UNCHANGED <<envVars, mcpVars, appVars, codecVars, handleVars, viewVars, decodeVars, extractVars, asmVars, trimVars>>

\* fileToBase64 settled: it rejects for an empty string or a read error;
\* then the check of base64SizeMB against 70, then the request is sent
PreflightBase64Done ==
    /\ tpc = "base64"
    /\ \E readFails \in BOOLEAN :
          IF readFails \/ Base64Length(fileSize) = 0
          THEN /\ PreflightRejects("Failed to read file")
               /\ UNCHANGED tBegun
          ELSE IF base64SizeOf(Base64Length(fileSize)) > Base64Limit
          THEN /\ PreflightRejects("Video too large after encoding. Maximum size is 50MB original file.")
               /\ UNCHANGED tBegun
          ELSE /\ tpc' = "fetch"
               /\ tBegun' = tBegun \cup {"fetch"}
               /\ UNCHANGED tResult
    /\ UNCHANGED <<fileSize, variant, dataFrames, duration, sam3FPS, originalFPS, ri,
                   renderedFrames>>
    /\ UNCHANGED <<envVars, mcpVars, appVars, codecVars, handleVars, viewVars, decodeVars, extractVars, asmVars, trimVars>>

NextPreflight == PreflightCheckSize \/ PreflightBase64Done

\* ------------------------------------------------------ video elements
\* the components that hold a video element: the rate estimate of
\* trackVideoText (tempVideo), extractVideoFrames, trimVideoFile and the
\* MediaViewer (videoRef)
Components == {"rate", "extract", "trim", "viewer"}

\* no video element exists
HandlesNone ==
    /\ handles = << >>
    /\ videoOf = [c \in Components |-> {}]

\* document.createElement('video') in a call of component c (for the viewer:
\* React mounts <video ref={videoRef}>): a new element, held by that call
HandleCreate(c) ==
    /\ Len(handles) < MaxHandles
    /\ handles' = Append(handles, [owner |-> c, users |-> {}])
    /\ videoOf' = [videoOf EXCEPT ![c] = @ \cup {Len(handles) + 1}]

\* a variant in which a component reaches every video of the document
HandleTargetsAnyVideo(c) == 1..Len(handles)

\* the elements a statement of component c can reach: the `video` of one
\* of its calls
HandleTargets(c) == videoOf[c]

\* a statement of component c seeks (`video.currentTime = ...`) or reads
\* (video.duration, video.currentTime, drawImage(video, ...)) its element
HandleAccess(c, op) ==
    /\ \E h \in HandleTargets(c) :
          /\ [by |-> c, op |-> op] \notin handles[h].users
          /\ handles' = [handles EXCEPT ![h].users = @ \cup {[by |-> c, op |-> op]}]
    /\ UNCHANGED videoOf

\* trackVideoText: const tempVideo = document.createElement('video')
RateCreatesVideo ==
    /\ HandleCreate("rate")
    /\ UNCHANGED <<envVars, mcpVars, appVars, codecVars, preVars, viewVars, decodeVars, trackVars, extractVars, asmVars, trimVars>>

\* tempVideo.onloadedmetadata reads tempVideo.duration
RateReadsVideo ==
    /\ HandleAccess("rate", "read")
    /\ UNCHANGED <<envVars, mcpVars, appVars, codecVars, preVars, viewVars, decodeVars, trackVars, extractVars, asmVars, trimVars>>

\* extractVideoFrames: const video = document.createElement('video')
ExtractCreatesVideo ==
    /\ HandleCreate("extract")
    /\ UNCHANGED <<envVars, mcpVars, appVars, codecVars, preVars, viewVars, decodeVars, trackVars, extractVars, asmVars, trimVars>>

\* extractVideoFrames: video.currentTime = time
ExtractSeeksVideo ==
    /\ HandleAccess("extract", "seek")
    /\ UNCHANGED <<envVars, mcpVars, appVars, codecVars, preVars, viewVars, decodeVars, trackVars, extractVars, asmVars, trimVars>>

\* onSeeked: ctx.drawImage(video, ...)
ExtractReadsVideo ==
    /\ HandleAccess("extract", "read")
    /\ UNCHANGED <<envVars, mcpVars, appVars, codecVars, preVars, viewVars, decodeVars, trackVars, extractVars, asmVars, trimVars>>

\* trimVideoFile: const video = document.createElement('video')
TrimCreatesVideo ==
    /\ HandleCreate("trim")
    /\ UNCHANGED <<envVars, mcpVars, appVars, codecVars, preVars, viewVars, decodeVars, trackVars, extractVars, asmVars, trimVars>>

\* video.onloadedmetadata: video.currentTime = startTime
TrimSeeksVideo ==
    /\ HandleAccess("trim", "seek")
    /\ UNCHANGED <<envVars, mcpVars, appVars, codecVars, preVars, viewVars, decodeVars, trackVars, extractVars, asmVars, trimVars>>

\* processFrame and onseeked read video.currentTime; drawImage(video, ...)
TrimReadsVideo ==
    /\ HandleAccess("trim", "read")
    /\ UNCHANGED <<envVars, mcpVars, appVars, codecVars, preVars, viewVars, decodeVars, trackVars, extractVars, asmVars, trimVars>>

\* the MediaViewer renders <video ref={videoRef}>
ViewerMountsVideo ==
    /\ HandleCreate("viewer")
    /\ UNCHANGED <<envVars, mcpVars, appVars, codecVars, preVars, viewVars, decodeVars, trackVars, extractVars, asmVars, trimVars>>

\* handlePreviewSeek(time): videoRef.current.currentTime = time
handlePreviewSeek ==
    /\ HandleAccess("viewer", "seek")
    /\ UNCHANGED <<envVars, mcpVars, appVars, codecVars, preVars, viewVars, decodeVars, trackVars, extractVars, asmVars, trimVars>>

\* updateOverlay reads video.currentTime and video.duration of videoRef.current
ViewerReadsVideo ==
    /\ HandleAccess("viewer", "read")
    /\ UNCHANGED <<envVars, mcpVars, appVars, codecVars, preVars, viewVars, decodeVars, trackVars, extractVars, asmVars, trimVars>>

NextHandles ==
    \/ RateCreatesVideo
    \/ RateReadsVideo
    \/ ExtractCreatesVideo
    \/ ExtractSeeksVideo
    \/ ExtractReadsVideo
    \/ TrimCreatesVideo
    \/ TrimSeeksVideo
    \/ TrimReadsVideo
    \/ ViewerMountsVideo
    \/ handlePreviewSeek
    \/ ViewerReadsVideo

\* ------------------------------------------------ MediaViewer: sync loop
\* no viewer exists
ViewNone ==
    /\ vpc = "none" /\ hasRVFC = FALSE /\ viewDur = NoDuration /\ syncFrames = 0
    /\ requestRef = 0 /\ viewPending = {} /\ viewIds = 0
    /\ currentOverlayUrl = 0 - 1 /\ viewLast = << >> /\ viewCleanups = 0

\* Math.max(0, Math.min(1, currentTime / duration)) for duration > 0 as a
\* fraction <<numerator, denominator>>; currentTime is t ticks of half a
\* second, and currentTime / Infinity is 0
ViewProgress(t, dur) ==
    IF dur.kind = "inf" THEN <<0, 1>>
    ELSE LET n == t * dur.den
             d == 2 * dur.num
         IN IF n > d THEN <<1, 1>> ELSE IF n < 0 THEN <<0, 1>> ELSE <<n, d>>

\* a variant of the index without the cap at frameCount - 1
frameIndexUncapped(t, dur, frameCount) ==
    LET progress == ViewProgress(t, dur)
    IN (progress[1] * frameCount) \div progress[2]

\* Math.min(frameCount - 1, Math.floor(progress * frameCount))
frameIndexOf(t, dur, frameCount) ==
    LET progress == ViewProgress(t, dur)
    IN Min(frameCount - 1, (progress[1] * frameCount) \div progress[2])

\* updateOverlay(): the overlay shown after an evaluation at currentTime t
updateOverlay(t) ==
    IF DurationPositive(viewDur) /\ syncFrames > 0
    THEN /\ currentOverlayUrl' = frameIndexOf(t, viewDur, syncFrames)
         /\ viewLast' = <<[currentTime |-> t,
                           frameIndex |-> frameIndexOf(t, viewDur, syncFrames)]>>
    ELSE UNCHANGED <<currentOverlayUrl, viewLast>>

\* the registration API the loop uses
ViewApi == IF hasRVFC THEN "rvfc" ELSE "raf"

\* requestRef.current = requestVideoFrameCallback(loop) or
\* requestAnimationFrame(loop), added to the callbacks in `pending`
ViewRegister(pending) ==
    /\ viewIds' = viewIds + 1
    /\ requestRef' = viewIds + 1
    /\ viewPending' = pending \cup {[api |-> ViewApi, id |-> viewIds + 1]}

\* a variant of the cleanup that cancels nothing
ViewCancelledNone(pending) == pending

\* the effect's cleanup: if (requestRef.current) cancel it with
\* cancelVideoFrameCallback or cancelAnimationFrame; what stays pending
ViewCancelled(pending) ==
    IF requestRef # 0
    THEN pending \ {[api |-> ViewApi, id |-> requestRef]}
    ELSE pending

\* mediaType or result changes: the cleanup of the running effect, then
\* setCurrentOverlayUrl(null) and the effect again, which starts the loop
\* when the new result has trackingFrames (frameCount of them) and the
\* media is a video
ViewResultChanges ==
    /\ vpc \in {"mounted", "active"}
    /\ viewIds < MaxViewCallbacks
    /\ \E tracking \in BOOLEAN, frameCount \in 0..MaxViewFrames :
          LET left == IF vpc = "active" THEN ViewCancelled(viewPending) ELSE viewPending
          IN /\ currentOverlayUrl' = 0 - 1
             /\ viewLast' = << >>
             /\ viewCleanups' = 0
             /\ IF tracking
                THEN /\ vpc' = "active"
                     /\ syncFrames' = frameCount
                     /\ ViewRegister(left)
                ELSE /\ vpc' = "mounted"
                     /\ syncFrames' = 0
                     /\ viewPending' = left
                     /\ UNCHANGED <<requestRef, viewIds>>
    /\ UNCHANGED <<hasRVFC, viewDur>>
    /\ UNCHANGED <<envVars, mcpVars, appVars, codecVars, preVars, handleVars, decodeVars, trackVars, extractVars, asmVars, trimVars>>

\* a registered callback runs loop(): updateOverlay() at the video's
\* current time, then the loop registers itself again
ViewCallback ==
    /\ viewIds < MaxViewCallbacks
    /\ \E cb \in viewPending, t \in (0 - 1)..(MaxViewDur + 1) :
          /\ updateOverlay(t)
          /\ ViewRegister(viewPending \ {cb})
    /\ UNCHANGED <<vpc, hasRVFC, viewDur, syncFrames, viewCleanups>>
    /\ UNCHANGED <<envVars, mcpVars, appVars, codecVars, preVars, handleVars, decodeVars, trackVars, extractVars, asmVars, trimVars>>

\* the viewer is torn down, or the cleanup runs once more after that
ViewTeardown ==
    /\ vpc \in {"active", "torn"}
    /\ viewCleanups < MaxViewCleanups
    /\ vpc' = "torn"
    /\ viewPending' = ViewCancelled(viewPending)
    /\ viewCleanups' = viewCleanups + 1
    /\ UNCHANGED <<hasRVFC, viewDur, syncFrames, requestRef, viewIds,
                   currentOverlayUrl, viewLast>>
    /\ UNCHANGED <<envVars, mcpVars, appVars, codecVars, preVars, handleVars, decodeVars, trackVars, extractVars, asmVars, trimVars>>

NextView ==
    \/ ViewResultChanges
    \/ ViewCallback
    \/ ViewTeardown

\* ------------------------------------------------ the rate specification
InitRate ==
    /\ ctx2d = TRUE
    /\ videoDuration \in RateDurations
    /\ McpNone
    /\ AppNone
    /\ CodecNone
    /\ PreflightNone
    /\ ViewNone
    /\ HandlesNone
    /\ variant \in {"text", "fast"}
    /\ tpc = "metadata"
    /\ dataFrames \in RateResults
    /\ duration = NoDuration /\ sam3FPS = 0 /\ originalFPS = 0
    /\ ri = 0 /\ renderedFrames = << >> /\ tResult = NoResult
    /\ xpc = "idle" /\ xArgs = [indices |-> << >>, fps |-> 0]
    /\ xi = 0 /\ originalFrames = << >> /\ xSeeks = << >> /\ xTimedOut = {}
    /\ xOutstanding = 0 /\ xTimer = FALSE /\ xFailed = {}
    /\ AsmNone
    /\ TrimNone
    /\ DecodeNone

NextRate == TrackLoadedMetadata \/ TrackMetadataError

SpecRate == InitRate /\ [][NextRate]_vars

\* -------------------------------------------- the pipeline specification
InitTrack ==
    /\ ctx2d \in BOOLEAN
    /\ videoDuration \in TrackDurations
    /\ McpNone
    /\ AppNone
    /\ CodecNone
    /\ PreflightNone
    /\ ViewNone
    /\ HandlesNone
    /\ variant = "text"
    /\ tpc = "metadata"
    /\ dataFrames \in TrackResults
    /\ duration = NoDuration /\ sam3FPS = 0 /\ originalFPS = 0
    /\ ri = 0 /\ renderedFrames = << >> /\ tResult = NoResult
    /\ xpc = "idle" /\ xArgs = [indices |-> << >>, fps |-> 0]
    /\ xi = 0 /\ originalFrames = << >> /\ xSeeks = << >> /\ xTimedOut = {}
    /\ xOutstanding = 0 /\ xTimer = FALSE /\ xFailed = {}
    /\ AsmNone
    /\ TrimNone
    /\ DecodeNone

NextTrack == NextTrackSteps \/ NextExtract \/ NextAsm

SpecTrack == InitTrack /\ [][NextTrack]_vars

\* ----------------------------------------- the compositing specification
\* object ids a packet of this specification lists: the falsy id 0, small
\* ids, and ids at and past the palette's length
RenderObjectIds == {0, 1, 5, Len(colors), MaxObjectId}

\* mask lists of at most n masks, each with the object id listed for it
RECURSIVE MaskLists(_)
MaskLists(n) ==
    IF n = 0 THEN {[masks |-> << >>, ids |-> << >>]}
    ELSE LET shorter == MaskLists(n - 1)
             longest == {x \in shorter : Len(x.masks) = n - 1}
         IN shorter \cup
            UNION {{[masks |-> Append(l.masks, mk), ids |-> Append(l.ids, id)] :
                       mk \in {MaskA, MaskB, MaskZero},
                       id \in RenderObjectIds \ Range(l.ids)} :
                   l \in longest}

\* the tracking operation after the extraction of the one frame of a
\* one-packet result (index 0, so the default rate)
InitRender ==
    /\ ctx2d = TRUE
    /\ videoDuration = Fin(1, 1)
    /\ McpNone
    /\ AppNone
    /\ CodecNone
    /\ PreflightNone
    /\ ViewNone
    /\ HandlesNone
    /\ variant = "text"
    /\ tpc = "render"
    /\ \E l \in MaskLists(MaxMasks) : dataFrames = <<Packet(0, l.masks, l.ids)>>
    /\ duration = videoDuration /\ sam3FPS = DefaultFPS /\ originalFPS = DefaultFPS
    /\ ri = 0 /\ renderedFrames = << >> /\ tResult = NoResult
    /\ xpc = "resolved" /\ xArgs = [indices |-> <<0>>, fps |-> DefaultFPS]
    /\ xi = 1 /\ originalFrames = <<[src |-> 0]>>
    /\ xSeeks = <<[frameIdx |-> 0, fps |-> DefaultFPS]>> /\ xTimedOut = {}
    /\ xOutstanding = 0 /\ xTimer = FALSE /\ xFailed = {}
    /\ AsmNone
    /\ TrimNone
    /\ DecodeNone

NextRender == TrackRenderFrame \/ TrackRenderDone

SpecRender == InitRender /\ [][NextRender]_vars

\* ------------------------------------------- the assembler specification
\* a caller invokes createVideoFromFrames on a sequence of annotated frames
AsmInvoke ==
    /\ apc = "idle"
    /\ \E n \in 0..MaxAsmFrames, fps \in {1, DefaultFPS} :
          AsmCall([k \in 1..n |-> [src |-> k - 1, packet |-> k - 1, overlays |-> << >>]],
                  fps)
    /\ UNCHANGED <<envVars, mcpVars, appVars, codecVars, preVars, handleVars, viewVars, decodeVars, trackVars, extractVars, trimVars>>

InitAsm ==
    /\ ctx2d \in BOOLEAN
    /\ videoDuration = Fin(1, 1)
    /\ McpNone
    /\ AppNone
    /\ supported \in SUBSET CodecTypes /\ aOptions = << >> /\ trOptions = << >>
    /\ PreflightNone
    /\ ViewNone
    /\ HandlesNone
    /\ variant = "text"
    /\ tpc = "none"
    /\ dataFrames = << >>
    /\ duration = NoDuration /\ sam3FPS = 0 /\ originalFPS = 0
    /\ ri = 0 /\ renderedFrames = << >> /\ tResult = NoResult
    /\ xpc = "idle" /\ xArgs = [indices |-> << >>, fps |-> 0]
    /\ xi = 0 /\ originalFrames = << >> /\ xSeeks = << >> /\ xTimedOut = {}
    /\ xOutstanding = 0 /\ xTimer = FALSE /\ xFailed = {}
    /\ apc = "idle" /\ aFrames = << >> /\ aFps = 0
    /\ aPromise = "pending" /\ aRejects = 0 /\ aVideo = << >>
    /\ frameIndex = 0 /\ recState = "none" /\ recQueue = << >>
    /\ chunks = << >> /\ drawn = << >> /\ recorded = << >> /\ aFailed = {}
    /\ aLoadFailed = {}
    /\ aClock = 0 /\ aStartAt = 0 - 1 /\ aStopAt = 0 - 1 /\ aLate = 0
    /\ TrimNone
    /\ DecodeNone

NextAsmAlone == AsmInvoke \/ NextAsm

SpecAsm == InitAsm /\ [][NextAsmAlone]_vars

\* ------------------------------------------------ the trim specification
\* a caller invokes trimVideoFile on a video of some duration
TrimInvoke ==
    /\ trpc = "idle"
    /\ \E startTime, endTime \in 0..MaxTrimTime, dur \in 1..MaxTrimDur :
          TrimCall(startTime, endTime, dur)
    /\ UNCHANGED <<envVars, mcpVars, appVars, codecVars, preVars, handleVars, viewVars, decodeVars, trackVars, extractVars, asmVars>>

InitTrim ==
    /\ ctx2d \in BOOLEAN
    /\ videoDuration = Fin(1, 1)
    /\ McpNone
    /\ AppNone
    /\ supported \in SUBSET CodecTypes /\ aOptions = << >> /\ trOptions = << >>
    /\ PreflightNone
    /\ ViewNone
    /\ HandlesNone
    /\ variant = "text"
    /\ tpc = "none"
    /\ dataFrames = << >>
    /\ duration = NoDuration /\ sam3FPS = 0 /\ originalFPS = 0
    /\ ri = 0 /\ renderedFrames = << >> /\ tResult = NoResult
    /\ xpc = "idle" /\ xArgs = [indices |-> << >>, fps |-> 0]
    /\ xi = 0 /\ originalFrames = << >> /\ xSeeks = << >> /\ xTimedOut = {}
    /\ xOutstanding = 0 /\ xTimer = FALSE /\ xFailed = {}
    /\ AsmNone
    /\ trpc = "idle" /\ trArgs = [startTime |-> 0, endTime |-> 0] /\ trVideoDur = 0
    /\ trTime = 0 /\ trSeeking = FALSE /\ trPlay = "none" /\ trPaused = TRUE
    /\ trEnded = FALSE /\ trAttached = FALSE /\ isRecording = FALSE
    /\ trRec = "none" /\ trQueue = << >> /\ trChunks = << >> /\ trRaf = FALSE
    /\ trPromise = "pending" /\ trProgress = {} /\ trDrawnAt = {} /\ trFailed = {}
    /\ trFile = << >>
    /\ DecodeNone

NextTrimAlone == TrimInvoke \/ NextTrim

SpecTrim == InitTrim /\ [][NextTrimAlone]_vars

\* ---------------------------------------- the two encoding operations
\* either the assembler or the trimmer is invoked
InitEncoder == InitAsm \/ InitTrim

NextEncoder == NextAsmAlone \/ NextTrimAlone

SpecEncoder == InitEncoder /\ [][NextEncoder]_vars

\* ------------------------------------------------ the decoding specification
\* neither the tracking operation nor the extractor has been called
TrackNone ==
    /\ variant = "text" /\ tpc = "none" /\ dataFrames = << >>
    /\ duration = NoDuration /\ sam3FPS = 0 /\ originalFPS = 0
    /\ ri = 0 /\ renderedFrames = << >> /\ tResult = NoResult

ExtractNone ==
    /\ xpc = "idle" /\ xArgs = [indices |-> << >>, fps |-> 0]
    /\ xi = 0 /\ originalFrames = << >> /\ xSeeks = << >> /\ xTimedOut = {}
    /\ xOutstanding = 0 /\ xTimer = FALSE /\ xFailed = {}

\* sequences over S of length at most n
RECURSIVE SeqsUpTo(_, _)
SeqsUpTo(S, n) ==
    IF n = 0 THEN {<< >>}
    ELSE LET shorter == SeqsUpTo(S, n - 1)
         IN shorter \cup {Append(q, x) : q \in {r \in shorter : Len(r) = n - 1}, x \in S}

\* masks as the model may return them, well-formed or not: any size up to
\* MaxMaskHeight x MaxMaskWidth (a zero dimension included) with any runs
DecodeMasks ==
    {[size |-> <<h, w>>, counts |-> c] :
        h \in 0..MaxMaskHeight, w \in 0..MaxMaskWidth, c \in SeqsUpTo(0..MaxRun, MaxRuns)}

\* a call decodeRLEToImageData(mask, width, height) is about to be made,
\* with the mask's own dimensions (as renderMasksOnFrame does) or others
InitDecode ==
    /\ ctx2d \in BOOLEAN
    /\ videoDuration = Fin(1, 1)
    /\ McpNone
    /\ AppNone
    /\ CodecNone
    /\ PreflightNone
    /\ ViewNone
    /\ HandlesNone
    /\ TrackNone /\ ExtractNone /\ AsmNone /\ TrimNone
    /\ dpc = "ready" /\ dBitmap = << >> /\ dResult = NoDecodeResult
    /\ \/ \E mask \in DecodeMasks, own \in BOOLEAN :
             dArgs = [fn |-> "decodeRLEToImageData", masks |-> <<mask>>,
                      width |-> IF own THEN mask.size[2] ELSE 1,
                      height |-> IF own THEN mask.size[1] ELSE MaxMaskHeight]
       \/ \E masks \in SeqsUpTo({MaskA, MaskB, MaskZero, ExampleMask}, MaxMasks) :
             dArgs = [fn |-> "decodeMasksToDataURL", masks |-> masks,
                      width |-> 0, height |-> 0]

\* the call returns or throws
DecodeRLE ==
    /\ dpc = "ready" /\ dArgs.fn = "decodeRLEToImageData"
    /\ dResult' = decodeRLEToImageData(dArgs.masks[1], dArgs.width, dArgs.height)
    /\ dpc' = "done"
    /\ UNCHANGED <<dBitmap, dArgs>>
    /\ UNCHANGED <<envVars, mcpVars, appVars, codecVars, preVars, handleVars, viewVars, trackVars, extractVars, asmVars, trimVars>>

\* a call decodeMasksToDataURL(masks) returns
DecodeMasksCall ==
    /\ dpc = "ready" /\ dArgs.fn = "decodeMasksToDataURL"
    /\ dResult' = decodeMasksToDataURL(dArgs.masks, ctx2d)
    /\ dpc' = "done"
    /\ UNCHANGED <<dBitmap, dArgs>>
    /\ UNCHANGED <<envVars, mcpVars, appVars, codecVars, preVars, handleVars, viewVars, trackVars, extractVars, asmVars, trimVars>>

NextDecode == DecodeRLE \/ DecodeMasksCall

SpecDecode == InitDecode /\ [][NextDecode]_vars

\* ---------------------------------------------- the round-trip specification
\* the run-length encoding of a bitmap by the rule the decoder assumes: the
\* runs alternate background / foreground starting with background, so a
\* bitmap that starts with a set pixel starts with a run of length 0
RECURSIVE EncodeRuns(_, _, _, _, _)
EncodeRuns(bits, k, val, run, counts) ==
    IF k > Len(bits) THEN Append(counts, run)
    ELSE IF bits[k] = val THEN EncodeRuns(bits, k + 1, val, run + 1, counts)
    ELSE EncodeRuns(bits, k, 1 - val, 0, Append(counts, run))

EncodeRLE(bits) == EncodeRuns(bits, 1, 0, 0, << >>)

\* a bitmap of at least one pixel is about to be encoded
InitRoundTrip ==
    /\ ctx2d \in BOOLEAN
    /\ videoDuration = Fin(1, 1)
    /\ McpNone
    /\ AppNone
    /\ CodecNone
    /\ PreflightNone
    /\ ViewNone
    /\ HandlesNone
    /\ TrackNone /\ ExtractNone /\ AsmNone /\ TrimNone
    /\ dpc = "bitmap" /\ dResult = NoDecodeResult
    /\ \E h \in 1..MaxMaskHeight, w \in 1..MaxMaskWidth :
          /\ dArgs = [fn |-> "encodeRLE", masks |-> << >>, width |-> w, height |-> h]
          /\ dBitmap \in [1..(w * h) -> {0, 1}]

\* the bitmap is encoded and decodeRLEToImageData is about to be called on
\* the mask, with the mask's own dimensions
EncodeBitmap ==
    /\ dpc = "bitmap"
    /\ dArgs' = [dArgs EXCEPT !.fn = "decodeRLEToImageData",
                              !.masks = <<[size |-> <<dArgs.height, dArgs.width>>,
                                           counts |-> EncodeRLE(dBitmap)]>>]
    /\ dpc' = "ready"
    /\ UNCHANGED <<dBitmap, dResult>>
    /\ UNCHANGED <<envVars, mcpVars, appVars, codecVars, preVars, handleVars, viewVars, trackVars, extractVars, asmVars, trimVars>>

NextRoundTrip == EncodeBitmap \/ DecodeRLE

SpecRoundTrip == InitRoundTrip /\ [][NextRoundTrip]_vars

\* ----------------------------------------------- the extractor specification
\* lists of distinct frame indices, in any order
ExtractIndexLists ==
    {q \in SeqsUpTo(TrackIdx, MaxTrackFrames) :
        \A j, k \in 1..Len(q) : j # k => q[j] # q[k]}

\* a caller invokes extractVideoFrames(videoFile, frameIndices, fps)
ExtractInvoke ==
    /\ xpc = "idle"
    /\ \E indices \in ExtractIndexLists, fps \in {0, 2, DefaultFPS} :
          ExtractCall(indices, fps)
    /\ UNCHANGED <<envVars, mcpVars, appVars, codecVars, preVars, handleVars, viewVars, decodeVars, trackVars, asmVars, trimVars>>

InitExtract ==
    /\ ctx2d \in BOOLEAN
    /\ videoDuration \in TrackDurations
    /\ McpNone
    /\ AppNone
    /\ CodecNone
    /\ PreflightNone
    /\ ViewNone
    /\ HandlesNone
    /\ TrackNone /\ ExtractNone /\ AsmNone /\ TrimNone /\ DecodeNone

NextExtractAlone == ExtractInvoke \/ NextExtract

SpecExtract == InitExtract /\ [][NextExtractAlone]_vars

\* -------------------------------------------------- the viewer specification
\* durations the viewer's video reports: NaN before the metadata, Infinity
\* for a stream, or 1..MaxViewDur ticks
ViewDurations == {NaNDuration, InfDuration} \cup {Fin(n, 2) : n \in 1..MaxViewDur}

InitView ==
    /\ ctx2d = TRUE
    /\ videoDuration = Fin(1, 1)
    /\ McpNone
    /\ AppNone
    /\ CodecNone
    /\ PreflightNone
    /\ HandlesNone
    /\ vpc = "mounted" /\ hasRVFC \in BOOLEAN /\ viewDur \in ViewDurations
    /\ syncFrames = 0 /\ requestRef = 0 /\ viewPending = {} /\ viewIds = 0
    /\ currentOverlayUrl = 0 - 1 /\ viewLast = << >> /\ viewCleanups = 0
    /\ TrackNone /\ ExtractNone /\ AsmNone /\ TrimNone /\ DecodeNone

SpecView == InitView /\ [][NextView]_vars

\* ------------------------------------------- the video handle specification
\* tracking operations, trim operations and the viewer create and use
\* their video elements in any order
InitHandles ==
    /\ ctx2d = TRUE
    /\ videoDuration = Fin(1, 1)
    /\ McpNone
    /\ AppNone
    /\ CodecNone
    /\ PreflightNone
    /\ HandlesNone
    /\ ViewNone
    /\ TrackNone /\ ExtractNone /\ AsmNone /\ TrimNone /\ DecodeNone

SpecHandles == InitHandles /\ [][NextHandles]_vars

\* ------------------------------------------------ the pre-flight specification
\* trackVideoText is called on a file of some size
InitPreflight ==
    /\ ctx2d = TRUE
    /\ videoDuration = Fin(1, 1)
    /\ McpNone
    /\ AppNone
    /\ CodecNone
    /\ fileSize \in 0..MaxFileSize /\ tBegun = {}
    /\ HandlesNone
    /\ ViewNone
    /\ variant = "text" /\ tpc = "preflight" /\ dataFrames = << >>
    /\ duration = NoDuration /\ sam3FPS = 0 /\ originalFPS = 0
    /\ ri = 0 /\ renderedFrames = << >> /\ tResult = NoResult
    /\ ExtractNone /\ AsmNone /\ TrimNone /\ DecodeNone

SpecPreflight == InitPreflight /\ [][NextPreflight]_vars

\* ------------------------------------------------ the App specification
\* a video has been uploaded (mediaUrl set, videoDuration 0, trimRange
\* [0, 0], no result); the user types, drags, crops and analyses
InitApp ==
    /\ ctx2d = TRUE
    /\ videoDuration = Fin(1, 1)
    /\ McpNone
    /\ AppNone
    /\ CodecNone
    /\ PreflightNone
    /\ HandlesNone
    /\ ViewNone
    /\ TrackNone /\ ExtractNone /\ AsmNone /\ TrimNone /\ DecodeNone

SpecApp == InitApp /\ [][NextApp]_vars

\* -------------------------------------------------------------- McpClient
\* connect(): a new EventSource is created and stored; its handlers belong
\* to this call's promise
McpConnect ==
    /\ Len(mcpSources) < MaxConnects
    /\ mcpSources' = Append(mcpSources, "connecting")
    /\ eventSource' = Len(mcpSources) + 1
    /\ mcpHandshake' = Append(mcpHandshake, "none")
    /\ mcpPromise' = Append(mcpPromise, "pending")
    /\ UNCHANGED <<postEndpoint, isConnected>>
    /\ UNCHANGED <<envVars, appVars, codecVars, preVars, handleVars, viewVars, decodeVars, trackVars, extractVars, asmVars, trimVars>>

\* eventSource.onopen: the connection is open (the handler only logs)
McpSourceOpens ==
    /\ \E id \in 1..Len(mcpSources) :
          /\ mcpSources[id] = "connecting"
          /\ mcpSources' = [mcpSources EXCEPT ![id] = "open"]
    /\ UNCHANGED <<eventSource, postEndpoint, isConnected, mcpHandshake, mcpPromise>>
    /\ UNCHANGED <<envVars, appVars, codecVars, preVars, handleVars, viewVars, decodeVars, trackVars, extractVars, asmVars, trimVars>>

\* eventSource.onerror: the source reconnects or is closed for good;
\* _isConnected = false; if (!this.postEndpoint) reject(err)
McpSourceError ==
    /\ \E id \in 1..Len(mcpSources), after \in {"connecting", "closed"} :
          /\ mcpSources[id] \in {"connecting", "open"}
          /\ mcpSources' = [mcpSources EXCEPT ![id] = after]
          /\ mcpPromise' = IF ~postEndpoint
                           THEN [mcpPromise EXCEPT ![id] = Settle(@, "rejected")]
                           ELSE mcpPromise
    /\ isConnected' = FALSE
    /\ UNCHANGED <<eventSource, postEndpoint, mcpHandshake>>
    /\ UNCHANGED <<envVars, appVars, codecVars, preVars, handleVars, viewVars, decodeVars, trackVars, extractVars, asmVars, trimVars>>

\* the 'endpoint' event of an open source: postEndpoint is set and
\* initialize() sends its first request
McpEndpointEvent ==
    /\ \E id \in 1..Len(mcpSources) :
          /\ mcpSources[id] = "open" /\ mcpHandshake[id] = "none"
          /\ mcpHandshake' = [mcpHandshake EXCEPT ![id] = "initialize"]
    /\ postEndpoint' = TRUE
    /\ UNCHANGED <<mcpSources, eventSource, isConnected, mcpPromise>>
    /\ UNCHANGED <<envVars, appVars, codecVars, preVars, handleVars, viewVars, decodeVars, trackVars, extractVars, asmVars, trimVars>>

\* the end of the handshake: `this._isConnected = true; resolve()` after
\* initialize() returned, reject(e) after it threw
McpHandshakeEnds(id, ok) ==
    IF ok
    THEN /\ isConnected' = TRUE
         /\ mcpPromise' = [mcpPromise EXCEPT ![id] = Settle(@, "resolved")]
         /\ mcpHandshake' = [mcpHandshake EXCEPT ![id] = "done"]
    ELSE /\ mcpPromise' = [mcpPromise EXCEPT ![id] = Settle(@, "rejected")]
         /\ mcpHandshake' = [mcpHandshake EXCEPT ![id] = "failed"]
         /\ UNCHANGED isConnected

\* the response to "initialize" arrives: on success rpcRequest of
\* "notifications/initialized" starts, which throws without an endpoint
McpInitializeReturns ==
    /\ \E id \in 1..Len(mcpSources), ok \in BOOLEAN :
          /\ mcpHandshake[id] = "initialize"
          /\ IF ok /\ postEndpoint
             THEN /\ mcpHandshake' = [mcpHandshake EXCEPT ![id] = "initialized"]
                  /\ UNCHANGED <<isConnected, mcpPromise>>
             ELSE McpHandshakeEnds(id, FALSE)
    /\ UNCHANGED <<mcpSources, eventSource, postEndpoint>>
    /\ UNCHANGED <<envVars, appVars, codecVars, preVars, handleVars, viewVars, decodeVars, trackVars, extractVars, asmVars, trimVars>>

\* the response to "notifications/initialized" arrives
McpInitializedReturns ==
    /\ \E id \in 1..Len(mcpSources), ok \in BOOLEAN :
          /\ mcpHandshake[id] = "initialized"
          /\ McpHandshakeEnds(id, ok)
    /\ UNCHANGED <<mcpSources, eventSource, postEndpoint>>
    /\ UNCHANGED <<envVars, appVars, codecVars, preVars, handleVars, viewVars, decodeVars, trackVars, extractVars, asmVars, trimVars>>

\* disconnect(): the stored source is closed and forgotten,
\* _isConnected = false, postEndpoint = null
McpDisconnect ==
    /\ IF eventSource # 0
       THEN mcpSources' = [mcpSources EXCEPT ![eventSource] = "closed"]
       ELSE UNCHANGED mcpSources
    /\ eventSource' = 0
    /\ isConnected' = FALSE
    /\ postEndpoint' = FALSE
    /\ UNCHANGED <<mcpHandshake, mcpPromise>>
    /\ UNCHANGED <<envVars, appVars, codecVars, preVars, handleVars, viewVars, decodeVars, trackVars, extractVars, asmVars, trimVars>>

NextMcp ==
    \/ McpConnect
    \/ McpSourceOpens
    \/ McpSourceError
    \/ McpEndpointEvent
    \/ McpInitializeReturns
    \/ McpInitializedReturns
    \/ McpDisconnect

\* ------------------------------------------- the McpClient specification
\* a client is constructed; connect() and disconnect() are called in any
\* order while the server and the network answer in any order
InitMcp ==
    /\ ctx2d = TRUE
    /\ videoDuration = Fin(1, 1)
    /\ McpNone
    /\ AppNone
    /\ CodecNone
    /\ PreflightNone
    /\ HandlesNone
    /\ ViewNone
    /\ TrackNone /\ ExtractNone /\ AsmNone /\ TrimNone /\ DecodeNone

SpecMcp == InitMcp /\ [][NextMcp]_vars

\* ================================================================ claims
\* the packet of data.frames with the given frame_idx
PacketOf(frameIdx) ==
    dataFrames[CHOOSE k \in 1..Len(dataFrames) : dataFrames[k].frame_idx = frameIdx]

\* C1 (as stated): a seek that times out only skips its index: the extractor
\* does not reject as a whole and the tracking operation does not end in an
\* error
C1_TimeoutSkipsFrame ==
    xTimedOut # {} => (xpc # "rejected" /\ tResult.status # "rejected")

C3_RecorderCtorFailureRejects ==
    /\ "ctor" \in aFailed => aPromise = "rejected"
    /\ "ctor" \in trFailed => trPromise = "rejected"

\* C4 (as stated): when no frame at all was annotated for a non-empty
\* result, the tracking operation ends in an error, never in a normal result
C4_NoFramesRejects ==
    (tpc = "done" /\ Len(renderedFrames) = 0) => tResult.status = "rejected"

\* C4 (amended): when no frame at all was annotated, the assembler is never
\* invoked and no media is produced: either the extractor resolved and the
\* operation returns the text-only result "No frames rendered.", or the
\* extractor rejected and the operation rejects with that error
C4_NoFramesTextOnly ==
    (tpc = "done" /\ Len(renderedFrames) = 0) =>
        /\ apc = "none"
        /\ tResult.mediaType = "none"
        /\ \/ /\ xpc = "resolved"
              /\ tResult.status = "returned"
              /\ tResult.text = "No frames rendered."
           \/ /\ xpc = "rejected"
              /\ tResult.status = "rejected"

\* C4 witness: the extractor resolved without a single frame and the
\* operation returned normally
C4_Witness ==
    /\ tpc = "done" /\ xpc = "resolved" /\ originalFrames = << >>
    /\ Len(dataFrames) = MaxTrackFrames
    /\ tResult.status = "returned"

\* the positions (0-based) of the masks of a packet that decode
Decodable(masks) == {i \in 0..(Len(masks) - 1) : ~DecodeThrows(masks[i + 1])}

OverlayPositions(frame) == {frame.overlays[k].pos : k \in 1..Len(frame.overlays)}

RateEstimated == tpc # "metadata" /\ duration.kind \in {"nan", "inf", "fin"}

\* C6 (as stated): sampledRate is an integer >= 1 for every reported
\* duration, and 30 when the duration is unavailable, NaN or not finite
C6_SampledRateAtLeastOne ==
    tpc # "metadata" =>
        /\ sam3FPS >= 1
        /\ duration.kind \in {"nan", "inf", "fallback"} => sam3FPS = 30

\* C7 (as stated): for a finite duration > 0, sampledRate is
\* round((max(frameIndex) + 1) / duration) clamped to at least 1, also when
\* the largest frame index is 0
C7_SampledRateFormula ==
    (RateEstimated /\ duration.kind = "fin" /\ duration.num > 0) =>
        LET n == SeqMax(FrameIdxList(dataFrames)) + 1
            rounded == (2 * n * duration.den + duration.num) \div (2 * duration.num)
        IN sam3FPS = IF rounded < 1 THEN 1 ELSE rounded

\* C8: sourceRate = sampledRate * multiplier, the multiplier being 5 up to a
\* sampledRate of 10, 2 up to 15 and 1 above; 10 -> 5, 11 -> 2, 15 -> 2, 16 -> 1
C8_SourceRateMultiplier ==
    tpc # "metadata" =>
        /\ sam3FPS <= 10 => originalFPS = sam3FPS * 5
        /\ (10 < sam3FPS /\ sam3FPS <= 15) => originalFPS = sam3FPS * 2
        /\ sam3FPS > 15 => originalFPS = sam3FPS
        /\ sam3FPS = 10 => originalFPS = 50
        /\ sam3FPS = 11 => originalFPS = 22
        /\ sam3FPS = 15 => originalFPS = 30
        /\ sam3FPS = 16 => originalFPS = 16

\* C8 witness: the estimate produced the boundary rate 10
C8_Witness == RateEstimated /\ sam3FPS = 10 /\ originalFPS = 50

\* the tracking result of the end-to-end scenario: indices 0, 5, 10 in a
\* source of 1.0 s whose metadata loaded
Scenario0510 ==
    /\ FrameIdxList(dataFrames) = <<0, 5, 10>>
    /\ duration = Fin(1, 1)

\* C9: the extractor is called with every returned index and sampledRate, so
\* each seek is to index / sampledRate; the assembler is paced at sourceRate;
\* indices 0, 5, 10 in 1.0 s give sampledRate 11, sourceRate 22, the seeks
\* 0/11, 5/11, 10/11 and an assembler rate of 22
C9_RatesFeedExtractorAndAssembler ==
    /\ xpc # "idle" =>
          /\ xArgs.fps = sam3FPS
          /\ Range(xArgs.indices) = Range(FrameIdxList(dataFrames))
    /\ \A k \in 1..Len(xSeeks) :
          /\ xSeeks[k].fps = sam3FPS
          /\ xSeeks[k].frameIdx \in Range(FrameIdxList(dataFrames))
    /\ apc # "none" => aFps = originalFPS
    /\ Scenario0510 =>
          /\ sam3FPS = 11 /\ originalFPS = 22
          /\ \A k \in 1..Len(xSeeks) :
                xSeeks[k] = [frameIdx |-> 5 * (k - 1), fps |-> 11]
          /\ xpc = "resolved" => Len(xSeeks) = 3
          /\ apc # "none" => aFps = 22

\* C9 witness: the scenario reached the assembler after its three seeks
C9_Witness ==
    Scenario0510 /\ Len(xSeeks) = 3 /\ apc # "none" /\ aFps = 22 /\ aPromise = "resolved"

\* C10 (as stated): the overlay of every mask has the colour
\* palette[objectId mod paletteSize] of the id listed for that mask, whatever
\* its position in the packet's list, the id 0 included
C10_ColourByObjectId ==
    \A k \in 1..Len(renderedFrames) :
        LET f == renderedFrames[k]
            ids == PacketOf(f.packet).object_ids
        IN \A j \in 1..Len(f.overlays) :
              f.overlays[j].color = colors[(ids[f.overlays[j].pos + 1] % Len(colors)) + 1]

\* C11 (as stated): the masks drawn on an annotated frame are those of the
\* packet whose frame_idx is the index at whose timestamp the picture was
\* captured, whichever indices yielded no picture
C11_MasksOnOwnPicture ==
    \A k \in 1..Len(renderedFrames) :
        renderedFrames[k].src = renderedFrames[k].packet

\* the sum of the first i run lengths
RECURSIVE PrefixSum(_, _)
PrefixSum(counts, i) == IF i = 0 THEN 0 ELSE PrefixSum(counts, i - 1) + counts[i]

\* pixel k falls in a run at an odd position (0-based) of counts
InOddRun(counts, k) ==
    \E i \in 1..Len(counts) :
        i % 2 = 0 /\ PrefixSum(counts, i - 1) <= k /\ k < PrefixSum(counts, i)

\* C12: decoding sets pixel k (row-major, 0 <= k < width * height) exactly
\* when k falls in a run at an odd position of counts, the runs alternating
\* background / foreground from background; size [2,4] with counts [2,2,2,2]
\* decodes to 0,0,1,1,0,0,1,1
C12_DecodeSetsOddRuns ==
    (dpc = "done" /\ dArgs.fn = "decodeRLEToImageData" /\ ~dResult.threw) =>
        /\ \A k \in 0..(dArgs.width * dArgs.height - 1) :
              (k \in dResult.written) <=> InOddRun(dArgs.masks[1].counts, k)
        /\ dResult.written \subseteq 0..(dArgs.width * dArgs.height - 1)
        /\ (dArgs.masks[1] = ExampleMask /\ dArgs.width = 4 /\ dArgs.height = 2) =>
              dResult.written = {2, 3, 6, 7}

\* C12 witness: the example mask has been decoded at its own size
C12_Witness ==
    /\ dpc = "done" /\ dArgs.fn = "decodeRLEToImageData" /\ dBitmap = << >>
    /\ dArgs.masks[1] = ExampleMask /\ dArgs.width = 4 /\ dArgs.height = 2
    /\ dResult.written = {2, 3, 6, 7}

\* C13: encoding a bitmap by the background-first alternation rule and
\* decoding the result gives back the bitmap, and the encoded counts sum to
\* width * height
C13_EncodeDecodeRoundTrip ==
    (dpc = "done" /\ dBitmap # << >>) =>
        /\ ~dResult.threw
        /\ dResult.width = dArgs.width /\ dResult.height = dArgs.height
        /\ \A k \in 0..(Len(dBitmap) - 1) :
              (k \in dResult.written) <=> (dBitmap[k + 1] = 1)
        /\ dResult.written \subseteq 0..(Len(dBitmap) - 1)
        /\ PrefixSum(dArgs.masks[1].counts, Len(dArgs.masks[1].counts))
               = dArgs.width * dArgs.height

\* C13 witness: a bitmap that starts with a set pixel and has several runs
\* went through the round trip
C13_Witness ==
    /\ dpc = "done" /\ Len(dBitmap) = MaxMaskHeight * MaxMaskWidth
    /\ dBitmap[1] = 1 /\ dBitmap[2] = 0 /\ dBitmap[Len(dBitmap)] = 1
    /\ 0 \in dResult.written /\ 1 \notin dResult.written

\* C14 (as stated): mask decoding never raises, whatever the mask (counts
\* that sum to more or less than width * height, a size that disagrees with
\* the target, a zero dimension): it completes and every pixel it writes has
\* an index in [0, width * height) of the target bitmap
C14_DecodeNeverRaises ==
    dpc = "done" =>
        /\ ~dResult.threw
        /\ dResult.written \subseteq 0..(dResult.width * dResult.height - 1)

\* C15: at most one seek is outstanding on the video at any time: the seek
\* for the next index is issued only after the previous index's seek and
\* capture have finished, and the indices are sought in strictly ascending
\* order
C15_OneSeekAtATime ==
    /\ xOutstanding <= 1
    /\ xpc \in {"toBlob", "createImageBitmap", "resolved"} => xOutstanding = 0
    /\ Len(xSeeks) <= xi + 1
    /\ xpc = "seeking" => Len(xSeeks) >= 1 /\ xSeeks[Len(xSeeks)].frameIdx = xArgs.indices[xi + 1]
    /\ \A j, k \in 1..Len(xSeeks) : j < k => xSeeks[j].frameIdx < xSeeks[k].frameIdx

\* C15 witness: three seeks were issued one after the other and all three
\* pictures captured
C15_Witness ==
    /\ xpc = "resolved" /\ Len(xSeeks) = 3 /\ Len(originalFrames) = 3
    /\ xOutstanding = 0

\* the extractor is waiting for the frame of the index at position xi
ExtractWaiting == xpc \in {"seeking", "toBlob", "createImageBitmap"}

\* C16 (as stated): the wait for an index is bounded by the timeout both
\* while the seek is outstanding and while the capture after the seek is in
\* progress: as long as the extractor waits, the timer is running
C16_WaitCoveredByTimer ==
    ExtractWaiting => xTimer

\* `time > video.duration` for the index, in the extractor's call
Skipped(frameIdx) == TimeExceedsDuration(frameIdx, xArgs.fps, videoDuration)

\* C17: for an index whose time index / rate exceeds the duration no seek is
\* issued and no frame is produced; the extraction goes on with the
\* remaining indices and the skip alone never rejects the extractor
C17_BeyondDurationSkipped ==
    /\ \A k \in 1..Len(xSeeks) : ~Skipped(xSeeks[k].frameIdx)
    /\ \A k \in 1..Len(originalFrames) : ~Skipped(originalFrames[k].src)
    /\ ExtractWaiting => ~Skipped(xArgs.indices[xi + 1])
    /\ xpc = "resolved" =>
          {xSeeks[k].frameIdx : k \in 1..Len(xSeeks)}
              = {idx \in Range(xArgs.indices) : ~Skipped(idx)}
    /\ xpc = "rejected" => xFailed # {}
    /\ (xpc \notin {"idle", "loading"} /\ xFailed = {}
           /\ \A idx \in Range(xArgs.indices) : Skipped(idx)) =>
          xpc = "resolved" /\ originalFrames = << >>

\* C17 witness: an index in the middle of the list was beyond the duration,
\* the indices after it were sought and the extractor resolved
C17_Witness ==
    /\ xpc = "resolved" /\ Len(xArgs.indices) = 3
    /\ Skipped(xArgs.indices[2]) /\ ~Skipped(xArgs.indices[3])
    /\ Len(xSeeks) = 2 /\ Len(originalFrames) = 2

\* the images drawn so far are a strictly ascending run of input positions
\* and every position below frameIndex was drawn or failed to load
DrawnInInputOrder ==
    /\ \A j, k \in 1..Len(drawn) : j < k => drawn[j] < drawn[k]
    /\ Range(drawn) \cup aLoadFailed = 0..(frameIndex - 1)
    /\ Range(drawn) \cap aLoadFailed = {}
    /\ frameIndex <= Len(aFrames)

\* C18 (as stated): the images are drawn in exactly input order, image k only
\* after images 0..k-1 were handled, none twice, and none after the encoder
\* has been stopped: once the encoder was started, every image drawn was
\* drawn while it was recording
C18_DrawnInOrderWhileRecording ==
    /\ DrawnInInputOrder
    /\ aStartAt # 0 - 1 => drawn = recorded

\* no dataavailable or stop event of the recorder is still to be delivered
Delivered(queue) == \A k \in 1..Len(queue) : queue[k] \notin {"dataavailable", "stop"}

\* C19: the promise resolves only after the encoder's stop event has fired,
\* never while the encoder is recording, and what it resolves with is the
\* sequence, in emission order, of the non-empty chunks the encoder emitted
\* before that event; for createVideoFromFrames and for trimVideoFile
C19_ResolvesAfterStopWithChunks ==
    /\ aPromise = "resolved" =>
          /\ recState = "inactive" /\ aStartAt # 0 - 1 /\ aStopAt # 0 - 1
          /\ Delivered(recQueue)
          /\ Len(aVideo) = 1 /\ aVideo[1].chunks = chunks
          /\ \A k \in 1..Len(chunks) : chunks[k].size > 0 /\ chunks[k].frames = recorded
    /\ trPromise = "resolved" =>
          /\ trRec = "inactive"
          /\ Delivered(trQueue)
          /\ Len(trFile) = 1 /\ trFile[1].chunks = trChunks
          /\ \A k \in 1..Len(trChunks) : trChunks[k].size > 0
    /\ aPromise # "resolved" => aVideo = << >>
    /\ trPromise # "resolved" => trFile = << >>

\* C19 witness: every image was drawn while recording, the stop event fired
\* and the promise resolved with the one chunk the encoder emitted
C19_Witness ==
    /\ aPromise = "resolved" /\ Len(aFrames) = MaxAsmFrames
    /\ Len(recorded) = MaxAsmFrames /\ Len(aVideo) = 1 /\ Len(aVideo[1].chunks) = 1
    /\ recQueue = << >>

\* every input image loaded and was drawn, the encoder did not fail and the
\* stop timer has stopped it
AllLoadedAndStopped ==
    /\ apc = "finished" /\ Len(aFrames) > 0 /\ Len(drawn) = Len(aFrames)
    /\ "encoder" \notin aFailed /\ aStartAt # 0 - 1 /\ aStopAt # 0 - 1

\* the time from mediaRecorder.start() to the recorder becoming inactive, in
\* units of 1 / fps milliseconds (a frame interval 1 / R is 1000 units)
RecordingInterval == aStopAt - aStartAt

FailedText == "Tracked N frames. Found M object(s). (Video creation failed, showing first frame)"

\* C21: when createVideoFromFrames rejects after at least one frame was
\* annotated, trackVideoText does not reject: it returns a result of type
\* image whose media is the first annotated frame, whose text ends with
\* "(Video creation failed, showing first frame)" and which carries the
\* whole sequence of annotated frames
C21_AssemblyFailureFallsBackToImage ==
    (tpc = "done" /\ aPromise = "rejected") =>
        /\ Len(renderedFrames) >= 1
        /\ tResult.status = "returned"
        /\ tResult.mediaType = "image"
        /\ tResult.media = <<renderedFrames[1]>>
        /\ tResult.text = FailedText
        /\ tResult.n = Len(dataFrames) /\ tResult.m = ObjectCount
        /\ tResult.trackingFrames = renderedFrames

\* C21 witness: two frames were annotated, the encoder failed while the
\* assembler was recording and the operation returned the first frame
C21_Witness ==
    /\ tpc = "done" /\ aPromise = "rejected" /\ "encoder" \in aFailed
    /\ Len(renderedFrames) >= 2
    /\ tResult.mediaType = "image" /\ tResult.media = <<renderedFrames[1]>>

\* the index the synchronizer is to show at currentTime t (ticks of half a
\* second) for n frames and a positive duration: 0 up to the start, n - 1
\* from the end on, and in between the i with i / n <= t / duration < (i + 1) / n
ExpectedOverlayIndex(t, dur, n, i) ==
    IF dur.kind = "inf" \/ t <= 0 THEN i = 0
    ELSE IF t * dur.den >= 2 * dur.num THEN i = n - 1
    ELSE /\ i * 2 * dur.num <= t * dur.den * n
         /\ t * dur.den * n < (i + 1) * 2 * dur.num

\* C22: for frameCount >= 1, duration > 0 and every currentTime (negative,
\* inside or beyond the duration) the overlay index is
\* min(frameCount - 1, floor(clamp(currentTime / duration, 0, 1) * frameCount))
\* and lies in [0, frameCount - 1]; frameCount 4, duration 2.0 and
\* currentTime 1.5 give index 3
C22_OverlayIndexInBounds ==
    /\ frameIndexOf(3, Fin(4, 2), 4) = 3
    /\ viewLast # << >> =>
          /\ syncFrames >= 1 /\ DurationPositive(viewDur)
          /\ viewLast[1].frameIndex \in 0..(syncFrames - 1)
          /\ ExpectedOverlayIndex(viewLast[1].currentTime, viewDur, syncFrames,
                                  viewLast[1].frameIndex)
          /\ currentOverlayUrl = viewLast[1].frameIndex

\* C22 witness: the loop evaluated the overlay past the end of the video
\* and shows the last of several frames
C22_Witness ==
    /\ viewLast # << >> /\ syncFrames >= 3 /\ viewDur.kind = "fin"
    /\ viewLast[1].currentTime * viewDur.den > 2 * viewDur.num
    /\ viewLast[1].frameIndex = syncFrames - 1

\* C23: at most one callback of the loop is pending, the loop registers
\* itself again after each evaluation, and once the cleanup has run (once
\* or several times) no callback is pending, so the overlay is not
\* evaluated again
C23_OneCallbackCancelledOnTeardown ==
    /\ Cardinality(viewPending) <= 1
    /\ vpc = "active" => viewPending = {[api |-> ViewApi, id |-> requestRef]}
    /\ vpc \in {"mounted", "torn"} => viewPending = {}

\* C23 witness: the loop evaluated the overlay and registered itself again,
\* then the cleanup ran twice
C23_Witness ==
    /\ vpc = "torn" /\ viewCleanups = 2 /\ viewLast # << >> /\ viewIds >= 2
    /\ viewPending = {}

\* (currentTime - startTime) / (endTime - startTime) clamped to [0, 1] at
\* playback position t, for startTime < endTime, as a fraction
TrimFraction(t) ==
    LET c == t - trArgs.startTime
        span == trArgs.endTime - trArgs.startTime
    IN IF c <= 0 THEN [num |-> 0, den |-> 1]
       ELSE IF c >= span THEN [num |-> 1, den |-> 1]
       ELSE [num |-> c, den |-> span]

\* two fractions are the same number
SameFraction(p, q) == p.den # 0 /\ q.den # 0 /\ p.num * q.den = q.num * p.den

\* C24 (as stated): every value reported to onProgress is
\* (currentTime - startTime) / (endTime - startTime) clamped to [0, 1], at
\* one of the positions drawn
C24_ProgressIsFraction ==
    trArgs.startTime < trArgs.endTime =>
        \A p \in trProgress : \E t \in trDrawnAt : SameFraction(p, TrimFraction(t))

\* C24 (amended): every value reported to onProgress is a percentage: 100
\* times that clamped fraction, between 0 and 100
C24_ProgressIsPercent ==
    trArgs.startTime < trArgs.endTime =>
        \A p \in trProgress :
            /\ p.den > 0 /\ 0 <= p.num /\ p.num <= 100 * p.den
            /\ \E t \in trDrawnAt :
                  SameFraction(p, [num |-> 100 * TrimFraction(t).num,
                                   den |-> TrimFraction(t).den])

\* C24 witness: progress was reported at the start of the window, where
\* it is 0, and part of the way through it
C24_Witness ==
    /\ trArgs.startTime < trArgs.endTime
    /\ \E p, q \in trProgress :
          /\ p.num = 0 /\ 0 < q.num /\ q.num < 100 * q.den
    /\ trPromise = "resolved"

\* the draw loop ran and stopRecording() was called
LoopStopped == trPlay = "resolved" /\ ~isRecording

\* the draw loop is running and the playback position is at or past
\* endTime, or playback has ended
ObservesEnd == isRecording /\ (trEnded \/ trTime >= trArgs.endTime)

\* C25: the tick of the draw loop that first observes currentTime >= endTime
\* or the end of playback stops the encoder; at and after that tick nothing
\* is drawn, no progress is reported and the loop is not rescheduled
C25_StopsAtFirstEndTick ==
    /\ [](LoopStopped => trRec # "recording" /\ ~trRaf)
    /\ [][((TrimAnimationFrame \/ TrimPlayStarted) /\ ObservesEnd) =>
              (LoopStopped' /\ trRec' # "recording" /\ ~trRaf'
                  /\ trDrawnAt' = trDrawnAt /\ trProgress' = trProgress)]_vars
    /\ [][LoopStopped =>
              (LoopStopped' /\ trDrawnAt' = trDrawnAt /\ trProgress' = trProgress)]_vars
    /\ [](\A t \in trDrawnAt : t < trArgs.endTime)

\* C25 witness: pictures were drawn, then a tick observed the end of the
\* window before the end of the video and stopped the encoder
C25_Witness ==
    /\ LoopStopped /\ trDrawnAt # {} /\ trTime >= trArgs.endTime /\ ~trEnded
    /\ trRec = "inactive" /\ "encoder" \notin trFailed

Oversized == fileSize > 2 * 50 \/ 4 * fileSize > 3 * 2 * 70

\* C27: for a source file larger than 50 MB, or whose encoded form is
\* larger than 70 MB, trackVideoText rejects with an error that names the
\* size limit before the base64 conversion, any network request or any
\* frame extraction has begun
C27_OversizedRejectedBeforeWork ==
    Oversized =>
        /\ tBegun = {} /\ xpc = "idle" /\ apc = "none"
        /\ tpc \in {"preflight", "done"}
        /\ tpc = "done" =>
              /\ tResult.status = "rejected"
              /\ tResult.text = "Video file too large. Maximum size is 50MB."

\* C27 witness: a file of 53 MB, whose encoded form is longer than 70 MB,
\* was rejected
C27_Witness ==
    /\ fileSize = 106 /\ tpc = "done" /\ tResult.status = "rejected" /\ tBegun = {}

\* the pixel of a mask of maskWidth by maskHeight pixels that the unsmoothed
\* scaling `scaledMaskCtx.drawImage(maskCanvas, 0, 0, canvas.width,
\* canvas.height)` shows at the frame's pixel (x, y)
MaskPixelAt(mask, x, y) ==
    LET maskHeight == mask.size[1]
        maskWidth == mask.size[2]
        mx == ((2 * x + 1) * maskWidth) \div (2 * FrameWidth)
        my == ((2 * y + 1) * maskHeight) \div (2 * FrameHeight)
    IN my * maskWidth + mx

\* the mask covers the frame's pixel (x, y): its decoded picture is white there
MaskCovers(mask, x, y) ==
    /\ ~DecodeThrows(mask)
    /\ MaskPixelAt(mask, x, y)
           \in decodeRLEToImageData(mask, mask.size[2], mask.size[1]).written

\* the list positions of the masks covering the pixel (x, y)
CoveringPositions(masks, x, y) ==
    {i \in 0..(Len(masks) - 1) : MaskCovers(masks[i + 1], x, y)}

\* the overlay on top at the pixel (x, y) of an annotated frame: overlays
\* are drawn 'source-over', each on what was drawn before it
TopOverlay(frame, x, y) ==
    LET above == {k \in 1..Len(frame.overlays) : MaskCovers(frame.overlays[k].mask, x, y)}
    IN frame.overlays[CHOOSE k \in above : \A j \in above : j <= k]

\* C28: on every frame on which the masks of a packet were composited, the
\* overlays were drawn in list order: at every pixel covered by more than
\* one mask the overlay on top is that of the last-listed mask covering it
C28_LastListedMaskOnTop ==
    \A k \in 1..Len(renderedFrames) :
        LET f == renderedFrames[k]
            masks == PacketOf(f.packet).masks
        IN f.overlays # << >> =>
              /\ Len(f.overlays) = Len(masks)
              /\ \A x \in 0..(FrameWidth - 1), y \in 0..(FrameHeight - 1) :
                    LET covering == CoveringPositions(masks, x, y)
                    IN Cardinality(covering) > 1 =>
                          /\ TopOverlay(f, x, y).pos \in covering
                          /\ \A i \in covering : i <= TopOverlay(f, x, y).pos
                          /\ TopOverlay(f, x, y).mask = masks[TopOverlay(f, x, y).pos + 1]

\* C28 witness: a frame was emitted with the overlays of two masks that
\* both cover one of its pixels
C28_Witness ==
    /\ Len(renderedFrames) = 1
    /\ Len(renderedFrames[1].overlays) = 2
    /\ \E x \in 0..(FrameWidth - 1), y \in 0..(FrameHeight - 1) :
          Cardinality(CoveringPositions(dataFrames[1].masks, x, y)) = 2

\* the picture the render loop hands to the compositing of the packet with
\* the index frameIdx
FrameGivenFor(frameIdx) ==
    originalFrames[IndexOf(frameIndicesOf(dataFrames), frameIdx) + 1]

\* the packets the render loop has passed that list no mask and have a
\* picture
UnmaskedPassed ==
    {i \in 1..ri : /\ i <= Len(dataFrames)
                   /\ Len(dataFrames[i].masks) = 0
                   /\ IndexOf(frameIndicesOf(dataFrames), dataFrames[i].frame_idx)
                          < Len(originalFrames)}

\* C29: compositing a frame with an empty mask list gives the frame itself,
\* pixel for pixel: renderMasksOnFrame with no masks returns the given
\* picture with no overlay drawn, and the frame the pipeline emits for a
\* packet without masks is the picture it was given with no overlay drawn
C29_NoMasksLeavesFrameUnchanged ==
    /\ \A k \in 1..Len(originalFrames) :
          LET r == renderMasksOnFrame(originalFrames[k], << >>, << >>, ctx2d)
          IN ctx2d =>
                /\ ~r.threw
                /\ Annotated(originalFrames[k], 0, r.overlays)
                       = [src |-> originalFrames[k].src, packet |-> 0, overlays |-> << >>]
    /\ \A k \in 1..Len(renderedFrames) :
          LET f == renderedFrames[k]
          IN Len(PacketOf(f.packet).masks) = 0 =>
                f.overlays = << >> /\ f.src = FrameGivenFor(f.packet).src
    /\ (ctx2d /\ tpc \in {"render", "assemble"}) =>
          \A i \in UnmaskedPassed :
              \E k \in 1..Len(renderedFrames) :
                  renderedFrames[k].packet = dataFrames[i].frame_idx

\* C29 witness: the pipeline emitted the frame of a packet without masks
\* that is not the first packet of the result
C29_Witness ==
    \E k \in 1..Len(renderedFrames) :
        /\ Len(PacketOf(renderedFrames[k].packet).masks) = 0
        /\ dataFrames[1].frame_idx # renderedFrames[k].packet
        /\ renderedFrames[k].overlays = << >>

\* the preference of the codec selection: the modern type when it is
\* supported, otherwise the generic one when it is supported, otherwise none
PreferredCodec ==
    IF CodecVp9 \in supported THEN CodecVp9
    ELSE IF CodecWebm \in supported THEN CodecWebm
    ELSE NoMimeType

\* C30: for every set of types the runtime reports as supported, the
\* recorder of the assembler and the recorder of the trimmer are requested
\* with 'video/webm;codecs=vp9' when it is supported, otherwise with
\* 'video/webm' when it is supported, otherwise without a mimeType; the two
\* selections agree.  (The trimmer asks once more, without options, only
\* after its first construction threw.)
C30_CodecPreference ==
    /\ asmRecorderOptions = trimRecorderOptions
    /\ Len(aOptions) <= 1
    /\ \A k \in 1..Len(aOptions) : aOptions[k] = PreferredCodec
    /\ trOptions # << >> => trOptions[1] = PreferredCodec
    /\ \A k \in 2..Len(trOptions) :
          trOptions[k] = NoMimeType
    /\ Len(trOptions) <= 2

\* C30 witness: in a runtime that supports only 'video/webm' the trimmer
\* records with a recorder requested with 'video/webm'
C30_Witness ==
    /\ supported = {CodecWebm}
    /\ trOptions = <<CodecWebm>>
    /\ trRec = "recording"

\* createVideoFromFrames has nothing left to run: the probe or the draw
\* loop has ended, the stop timer has run and no recorder event is
\* undelivered
AsmAtRest == apc = "finished" /\ recQueue = << >> /\ recState # "recording"

\* C31: for a non-empty list of frames and every outcome of the image
\* loads, the promise of createVideoFromFrames does not stay pending: once
\* the assembler has nothing left to run the promise is resolved (the
\* encoder was started and stopped) or rejected
C31_SettledAtRest ==
    (AsmAtRest /\ Len(aFrames) > 0) =>
        \/ aPromise = "rejected"
        \/ aPromise = "resolved" /\ aStartAt >= 0 /\ aStopAt >= aStartAt

\* trimVideoFile has nothing left to run after its metadata loaded: no seek
\* is in progress, play() is not pending, no animation frame is requested,
\* the recorder is not recording and none of its events is undelivered
TrimAtRest ==
    /\ trpc = "live" /\ ~trSeeking /\ trPlay # "pending" /\ ~trRaf
    /\ trRec # "recording" /\ trQueue = << >>

\* the seek to startTime ended where video.onseeked starts the recording
SeekLandsInWindow ==
    LET landed == IF trArgs.startTime > trVideoDur THEN trVideoDur ELSE trArgs.startTime
    IN landed < trArgs.endTime /\ Abs(landed - trArgs.startTime) < HalfSecond

\* C32: for every startTime and endTime and every video that loads its
\* metadata, the promise of trimVideoFile does not stay pending: once the
\* operation has nothing left to run (and no MediaRecorder construction
\* threw) the promise is resolved with a file or rejected
C32_TrimSettledAtRest ==
    (TrimAtRest /\ "ctor" \notin trFailed) =>
        \/ trPromise = "rejected"
        \/ trPromise = "resolved" /\ Len(trFile) = 1

\* the same for the trims whose seek lands before endTime and within half
\* a second of startTime
TrimSettledWhenSeekInWindow ==
    SeekLandsInWindow => C32_TrimSettledAtRest

\* C33: once the promise of trimVideoFile is rejected the encoder is not
\* recording: a rejection after the encoder was started (play() rejected,
\* or a video error during the capture) has stopped it
C33_RejectedMeansEncoderStopped ==
    trPromise = "rejected" => trRec # "recording"

\* the step constructs a MediaRecorder and starts it
EncoderStarts == trOptions' # trOptions

\* a recorder is started only by a seeked event at a position before
\* endTime and within half a second of startTime, and only the first time
StartsAfterSeekOnce ==
    EncoderStarts =>
        /\ trSeeking
        /\ trTime < trArgs.endTime
        /\ Abs(trTime - trArgs.startTime) < HalfSecond
        /\ trOptions = << >>
        /\ trDrawnAt = {} /\ trPlay = "none"

\* a picture is drawn only once a recorder was started and play() resolved
DrawsAfterPlayback ==
    trDrawnAt' # trDrawnAt => (trPlay' = "resolved" /\ trOptions # << >>)

\* C34: in trimVideoFile the encoder is started only by a seeked event at a
\* position before endTime and within half a second of startTime, and at
\* most once per trim operation whatever seeked events follow; a picture is
\* drawn only once play() has resolved
C34_StartAfterSeekOnce ==
    [][StartsAfterSeekOnce /\ DrawsAfterPlayback]_vars

\* C34 witness: the trim starts at the end of the video, so play() seeks
\* back to the start: that further seeked event has been delivered while
\* recording, one recorder was started and a picture has been drawn
C34_Witness ==
    /\ trArgs.startTime = trVideoDur
    /\ isRecording /\ ~trSeeking /\ trRec = "recording"
    /\ Len(trOptions) = 1
    /\ trDrawnAt # {}

\* C35: a tracking analysis and a trim operation are never in flight at
\* the same time: isAnalyzing and isTrimming are never both true
C35_AnalysisAndTrimExclusive ==
    ~(isAnalyzing /\ isTrimming)

\* the trim range lies in [0, duration] and is at least one second long
RangeWellFormed ==
    /\ 0 <= trimRange[1] /\ trimRange[2] <= stateDuration
    /\ trimRange[2] - trimRange[1] >= MinGap

\* C36: from the range [0, duration] on, after any sequence of start-handle
\* and end-handle drags, 0 <= start, end <= duration and end - start >= 1
\* second, for every duration > 0
C36_RangeWithinDuration ==
    stateDuration > 0 => RangeWellFormed

\* the same for the videos of at least one second
RangeWithinDurationFromOneSecond ==
    stateDuration >= MinGap => RangeWellFormed

\* C37: whenever the client reports isConnected, its stored event source is
\* open and its POST endpoint is set -- also after disconnect() was called
\* while the connect()/initialize handshake was in flight
SourceOpen == eventSource # 0 /\ mcpSources[eventSource] = "open"

C37_ConnectedMeansOpenAndEndpoint ==
    isConnected => (SourceOpen /\ postEndpoint)

\* the handshake of a client that was never disconnected, never connected a
\* second time and whose source had no error ends in a connected client
\* with an open source and an endpoint
ConnectedAfterUndisturbedHandshake ==
    (isConnected /\ Len(mcpSources) = 1 /\ SourceOpen) => postEndpoint

\* a client whose only connect() was followed by disconnect() keeps no
\* event source, so it does not report isConnected
DisconnectedStaysDisconnected ==
    (Len(mcpSources) = 1 /\ eventSource = 0) => ~isConnected
====
